---- MODULE Spec2Model ----
(***************************************************************************)
(* WALExplorer: the transaction tracker (core/transaction_manager.py) fed  *)
(* with decoded XLOG records (core/wal_parser.py), with the LSN text form  *)
(* of utils/lsn_utils.py, and the record reader (core/xlog_reader.py)      *)
(* iterating over the pages of one segment file.                           *)
(* The byte cursor (utils/binary_reader.py) and the decoding of one record *)
(* from it, and the construction of an LSN from its text, are specified    *)
(* on their own: BytesSpec (AnyArgSpec with arguments of either sign) and  *)
(* LsnSpec.  WalSpec is WALFile.parse of core/wal_parser.py over a file of *)
(* pages of the declared block size.                                       *)
(*                                                                         *)
(* Python's Optional[T] is modelled as a sequence of length at most one:   *)
(* None is <<>> and a present value v is <<v>>.  Dictionaries are          *)
(* functions whose DOMAIN is the set of keys.  Strings are TLA+ strings.   *)
(***************************************************************************)
EXTENDS Integers, Sequences, FiniteSets, TLC

VARIABLES
    transactions,            \* self.transactions: xid -> TransactionInfo (active)
    committed_transactions,  \* self.committed_transactions
    aborted_transactions,    \* self.aborted_transactions
    subtransaction_map,      \* self.subtransaction_map: subxid -> parent xid
    total_transactions,      \* self.total_transactions
    committed_count,         \* self.committed_count
    aborted_count,           \* self.aborted_count
    ncalls,                  \* number of calls made on the tracker so far
    call,                    \* the call made last, with its arguments
    segment,                 \* the segment file XLogReader was opened on
    start_lsn_arg,           \* read_records' argument start_lsn (Optional)
    end_lsn_arg,             \* read_records' argument end_lsn (Optional)
    current_position,        \* self.current_position
    pc,                      \* where the generator read_records stands
    page_data,               \* number of the page held in "page_data" (0: none)
    reader_position,         \* reader.position, within the page being parsed
    reader_records,          \* the list "records" of _read_page_records
    page_records,            \* the part of "page_records" not yet yielded
    emitted,                 \* the records yielded so far, in order
    file_handle,             \* self.file_handle of the XLogReader (Optional)
    data,                    \* self.data of the BinaryReader "reader"
    outcome,                 \* what the last call on "reader" returned or raised
    lsn_str,                 \* the text an LSN is constructed from
    lsn_value,               \* self.value of that LSN (Optional)
    pages_read               \* the offsets WALFile read a page header at

trackerVars == <<transactions, committed_transactions, aborted_transactions,
                 subtransaction_map, total_transactions, committed_count,
                 aborted_count, ncalls, call>>

readerVars == <<segment, start_lsn_arg, end_lsn_arg, current_position, pc,
                page_data, reader_position, reader_records, page_records,
                emitted>>

vars == <<transactions, committed_transactions, aborted_transactions,
          subtransaction_map, total_transactions, committed_count,
          aborted_count, ncalls, call,
          segment, start_lsn_arg, end_lsn_arg, current_position, pc,
          page_data, reader_position, reader_records, page_records, emitted,
          file_handle, data, outcome, lsn_str, lsn_value, pages_read>>

\* the state outside the tracker and the generator read_records
moreVars == <<file_handle, data, outcome, lsn_str, lsn_value, pages_read>>

----------------------------------------------------------------------------
(* Bounds of the model *)

\* at most MaxCalls calls are made on one tracker
MaxCalls == 4

\* a segment file holds at most MaxPages whole pages
MaxPages == 3

\* the list built by _read_page_records holds at most MaxRecords records
MaxRecords == 5

\* data that holds no record is at most MaxData bytes long
MaxData == 4

\* a call on a BinaryReader asks for at most MaxCount bytes
MaxCount == 3

\* each half of the text of an LSN has at most MaxDigits digits
MaxDigits == 9

----------------------------------------------------------------------------
(* Python values *)

None == <<>>

Some(v) == <<v>>

\* dict[k] = v
DictSet(d, k, v) == [x \in DOMAIN d \cup {k} |-> IF x = k THEN v ELSE d[x]]

\* del dict[k]
DictDel(d, k) == [x \in DOMAIN d \ {k} |-> d[x]]

EmptyDict == [x \in {} |-> 0]

----------------------------------------------------------------------------
(* utils/lsn_utils.py *)

HexDigits == <<"0", "1", "2", "3", "4", "5", "6", "7",
               "8", "9", "A", "B", "C", "D", "E", "F">>

\* format(n, "X"): uppercase hexadecimal, no leading zeros, "0" for 0
RECURSIVE FormatX(_)
FormatX(n) ==
    IF n < 16 THEN HexDigits[n + 1]
    ELSE FormatX(n \div 16) \o HexDigits[(n % 16) + 1]

\* value >> 32 (two shifts by 16 bits)
file_id(value) == (value \div 65536) \div 65536

\* value & 0xFFFFFFFF
file_offset(value) == value - (file_id(value) * 65536) * 65536

\* LSN.to_string / LSN.__str__
to_string(value) == FormatX(file_id(value)) \o "/" \o FormatX(file_offset(value))

----------------------------------------------------------------------------
(* core/wal_parser.py *)

XLR_INFO_MASK == 15

RECURSIVE BitAnd(_, _)
BitAnd(a, b) ==
    IF a = 0 \/ b = 0 THEN 0
    ELSE (a % 2) * (b % 2) + 2 * BitAnd(a \div 2, b \div 2)

\* get_info without the mask: the whole xl_info byte
get_info_unmasked(record) == record.xl_info

\* XLogRecord.get_info
get_info(record) == BitAnd(record.xl_info, XLR_INFO_MASK)

RMGR_IDS == <<"XLOG", "Transaction", "Storage", "CLOG", "Database",
              "Tablespace", "MultiXact", "RelMap", "Standby", "Heap2",
              "Heap", "Btree", "Hash", "Gin", "Gist", "Sequence", "SPGist",
              "BRIN", "Generic", "Logical", "Dist", "CommitTs",
              "ReplicationOrigin", "ReplicationSlot", "Heap3">>

\* str(n) of a non-negative integer, as the f-string formats it
RECURSIVE FormatD(_)
FormatD(n) ==
    IF n < 10 THEN HexDigits[n + 1]
    ELSE FormatD(n \div 10) \o HexDigits[(n % 10) + 1]

get_rmgr_name(rmid) ==
    IF rmid + 1 \in DOMAIN RMGR_IDS THEN RMGR_IDS[rmid + 1]
    ELSE "Unknown(" \o FormatD(rmid) \o ")"

----------------------------------------------------------------------------
(* core/transaction_manager.py: TransactionState, TransactionInfo *)

IN_PROGRESS == "in_progress"
COMMITTED == "committed"
ABORTED == "aborted"
PREPARED == "prepared"

TransactionInfo(xid, start_lsn, parent_xid) ==
    [xid             |-> xid,
     state           |-> IN_PROGRESS,
     start_lsn       |-> start_lsn,
     commit_lsn      |-> None,
     records         |-> <<>>,
     savepoints      |-> <<>>,
     subtransactions |-> {},
     parent_xid      |-> parent_xid]

\* TransactionInfo.add_record
add_record(transaction, record) ==
    [transaction EXCEPT !.records = Append(@, record)]

----------------------------------------------------------------------------
(* core/transaction_manager.py: TransactionManager                         *)
(* The methods are operators from a tracker value tm (a record of the      *)
(* object's fields) to the tracker value after the call.                   *)

TM == [transactions           |-> transactions,
       committed_transactions |-> committed_transactions,
       aborted_transactions   |-> aborted_transactions,
       subtransaction_map     |-> subtransaction_map,
       total_transactions     |-> total_transactions,
       committed_count        |-> committed_count,
       aborted_count          |-> aborted_count]

\* TransactionManager.__init__
NewTM == [transactions           |-> EmptyDict,
          committed_transactions |-> EmptyDict,
          aborted_transactions   |-> EmptyDict,
          subtransaction_map     |-> EmptyDict,
          total_transactions     |-> 0,
          committed_count        |-> 0,
          aborted_count          |-> 0]

_create_transaction(tm, xid, record) ==
    LET transaction ==
            add_record(TransactionInfo(xid, Some(to_string(record.xl_prev)), None),
                       record)
    IN  [tm EXCEPT !.transactions = DictSet(@, xid, transaction),
                   !.total_transactions = @ + 1]

\* _process_general_record without its test "if xid not in self.transactions"
_process_general_record_always_creates(tm, record) ==
    LET xid == record.xl_xid
        tm1 == _create_transaction(tm, xid, record)
    IN  [tm1 EXCEPT !.transactions[xid] = add_record(@, record)]

_process_general_record(tm, record) ==
    LET xid == record.xl_xid IN
    IF xid \notin DOMAIN tm.transactions
    THEN LET tm1 == _create_transaction(tm, xid, record) IN
         [tm1 EXCEPT !.transactions[xid] = add_record(@, record)]
    ELSE [tm EXCEPT !.transactions[xid] = add_record(@, record)]

\* _finish_subtransactions without "del self.transactions[subxid]"
RECURSIVE _finish_subtransactions_keep_active(_, _, _, _, _)
_finish_subtransactions_keep_active(tm, todo, state, record, field) ==
    IF todo = {} THEN tm
    ELSE LET subxid == CHOOSE s \in todo : TRUE
             tm1 == IF subxid \in DOMAIN tm.transactions
                    THEN LET subtransaction ==
                                 [tm.transactions[subxid] EXCEPT
                                     !.state = state,
                                     !.commit_lsn = Some(to_string(record.xl_prev))]
                         IN  [tm EXCEPT ![field] = DictSet(@, subxid, subtransaction)]
                    ELSE tm
         IN  _finish_subtransactions_keep_active(tm1, todo \ {subxid}, state,
                                                 record, field)

\* _finish_subtransactions without "subtransaction.state = ..."
RECURSIVE _finish_subtransactions_keep_state(_, _, _, _, _)
_finish_subtransactions_keep_state(tm, todo, state, record, field) ==
    IF todo = {} THEN tm
    ELSE LET subxid == CHOOSE s \in todo : TRUE
             tm1 == IF subxid \in DOMAIN tm.transactions
                    THEN LET subtransaction ==
                                 [tm.transactions[subxid] EXCEPT
                                     !.commit_lsn = Some(to_string(record.xl_prev))]
                         IN  [tm EXCEPT ![field] = DictSet(@, subxid, subtransaction),
                                        !.transactions = DictDel(@, subxid)]
                    ELSE tm
         IN  _finish_subtransactions_keep_state(tm1, todo \ {subxid}, state,
                                                record, field)

\* the loop "for subxid in transaction.subtransactions" of _commit_transaction
\* and _abort_transaction: todo is the part of the set not yet visited
RECURSIVE _finish_subtransactions(_, _, _, _, _)
_finish_subtransactions(tm, todo, state, record, field) ==
    IF todo = {} THEN tm
    ELSE LET subxid == CHOOSE s \in todo : TRUE
             tm1 == IF subxid \in DOMAIN tm.transactions
                    THEN LET subtransaction ==
                                 [tm.transactions[subxid] EXCEPT
                                     !.state = state,
                                     !.commit_lsn = Some(to_string(record.xl_prev))]
                         IN  [tm EXCEPT ![field] = DictSet(@, subxid, subtransaction),
                                        !.transactions = DictDel(@, subxid)]
                    ELSE tm
         IN  _finish_subtransactions(tm1, todo \ {subxid}, state, record, field)

\* _commit_transaction without its guard "if xid in self.transactions":
\* an xid not yet tracked is created and committed at once
_commit_transaction_of_unseen(tm, xid, record) ==
    LET tm0 == IF xid \in DOMAIN tm.transactions THEN tm
               ELSE [tm EXCEPT !.transactions =
                        DictSet(@, xid,
                                TransactionInfo(xid, Some(to_string(record.xl_prev)),
                                                None)),
                               !.total_transactions = @ + 1]
        transaction ==
            add_record([tm0.transactions[xid] EXCEPT
                           !.state = COMMITTED,
                           !.commit_lsn = Some(to_string(record.xl_prev))],
                       record)
        tm1 == [tm0 EXCEPT
                   !.committed_transactions = DictSet(@, xid, transaction),
                   !.transactions = DictDel(@, xid),
                   !.committed_count = @ + 1]
    IN  _finish_subtransactions(tm1, transaction.subtransactions, COMMITTED,
                                record, "committed_transactions")

\* _commit_transaction with commit_lsn taken from the transaction's start_lsn
\* instead of the commit record's xl_prev
_commit_transaction_start_lsn(tm, xid, record) ==
    IF xid \in DOMAIN tm.transactions
    THEN LET transaction ==
                 add_record([tm.transactions[xid] EXCEPT
                                !.state = COMMITTED,
                                !.commit_lsn = tm.transactions[xid].start_lsn],
                            record)
             tm1 == [tm EXCEPT
                        !.committed_transactions = DictSet(@, xid, transaction),
                        !.transactions = DictDel(@, xid),
                        !.committed_count = @ + 1]
         IN  _finish_subtransactions(tm1, transaction.subtransactions, COMMITTED,
                                     record, "committed_transactions")
    ELSE tm

_commit_transaction(tm, xid, record) ==
    IF xid \in DOMAIN tm.transactions
    THEN LET transaction ==
                 add_record([tm.transactions[xid] EXCEPT
                                !.state = COMMITTED,
                                !.commit_lsn = Some(to_string(record.xl_prev))],
                            record)
             tm1 == [tm EXCEPT
                        !.committed_transactions = DictSet(@, xid, transaction),
                        !.transactions = DictDel(@, xid),
                        !.committed_count = @ + 1]
         IN  _finish_subtransactions(tm1, transaction.subtransactions, COMMITTED,
                                     record, "committed_transactions")
    ELSE tm

_abort_transaction(tm, xid, record) ==
    IF xid \in DOMAIN tm.transactions
    THEN LET transaction ==
                 add_record([tm.transactions[xid] EXCEPT
                                !.state = ABORTED,
                                !.commit_lsn = Some(to_string(record.xl_prev))],
                            record)
             tm1 == [tm EXCEPT
                        !.aborted_transactions = DictSet(@, xid, transaction),
                        !.transactions = DictDel(@, xid),
                        !.aborted_count = @ + 1]
         IN  _finish_subtransactions(tm1, transaction.subtransactions, ABORTED,
                                     record, "aborted_transactions")
    ELSE tm

_prepare_transaction(tm, xid, record) ==
    IF xid \in DOMAIN tm.transactions
    THEN [tm EXCEPT !.transactions[xid] =
                        add_record([@ EXCEPT !.state = PREPARED], record)]
    ELSE tm

_commit_prepared_transaction(tm, xid, record) ==
    IF xid \in DOMAIN tm.transactions
    THEN _commit_transaction(tm, xid, record)
    ELSE tm

_abort_prepared_transaction(tm, xid, record) ==
    IF xid \in DOMAIN tm.transactions
    THEN _abort_transaction(tm, xid, record)
    ELSE tm

\* body is "pass"
_process_assignment(tm, record) == tm

\* body is "pass"
_process_invalid(tm, record) == tm

_process_other_transaction_record(tm, record, info) ==
    LET xid == record.xl_xid IN
    IF xid \notin DOMAIN tm.transactions
    THEN _create_transaction(tm, xid, record)
    ELSE [tm EXCEPT !.transactions[xid] = add_record(@, record)]

\* the values the dispatcher compares get_info() with (0x00 .. 0x60)
XLOG_XACT_COMMIT == 0
XLOG_XACT_ABORT == 16
XLOG_XACT_PREPARE == 32
XLOG_XACT_COMMIT_PREPARED == 48
XLOG_XACT_ABORT_PREPARED == 64
XLOG_XACT_ASSIGNMENT == 80
XLOG_XACT_INVALID == 96

_process_transaction_record(tm, record) ==
    LET info == get_info(record)
        xid == record.xl_xid
    IN  CASE info = XLOG_XACT_COMMIT -> _commit_transaction(tm, xid, record)
          [] info = XLOG_XACT_ABORT -> _abort_transaction(tm, xid, record)
          [] info = XLOG_XACT_PREPARE -> _prepare_transaction(tm, xid, record)
          [] info = XLOG_XACT_COMMIT_PREPARED ->
                 _commit_prepared_transaction(tm, xid, record)
          [] info = XLOG_XACT_ABORT_PREPARED ->
                 _abort_prepared_transaction(tm, xid, record)
          [] info = XLOG_XACT_ASSIGNMENT -> _process_assignment(tm, record)
          [] info = XLOG_XACT_INVALID -> _process_invalid(tm, record)
          [] OTHER -> _process_other_transaction_record(tm, record, info)

process_record(tm, record) ==
    LET rmgr_name == get_rmgr_name(record.xl_rmid) IN
    IF rmgr_name = "Transaction"
    THEN _process_transaction_record(tm, record)
    ELSE IF record.xl_xid # 0
         THEN _process_general_record(tm, record)
         ELSE tm

add_subtransaction(tm, parent_xid, subxid) ==
    LET tm1 == [tm EXCEPT !.subtransaction_map = DictSet(@, subxid, parent_xid)]
        tm2 == IF parent_xid \in DOMAIN tm1.transactions
               THEN [tm1 EXCEPT !.transactions[parent_xid].subtransactions =
                                    @ \cup {subxid}]
               ELSE tm1
    IN  IF subxid \notin DOMAIN tm2.transactions
        THEN [tm2 EXCEPT !.transactions =
                  DictSet(@, subxid, TransactionInfo(subxid, None, Some(parent_xid)))]
        ELSE tm2

\* TransactionManager.get_transaction, on a tracker value
get_transaction(tm, xid) ==
    IF xid \in DOMAIN tm.transactions THEN Some(tm.transactions[xid])
    ELSE IF xid \in DOMAIN tm.committed_transactions
         THEN Some(tm.committed_transactions[xid])
    ELSE IF xid \in DOMAIN tm.aborted_transactions
         THEN Some(tm.aborted_transactions[xid])
    ELSE None

\* TransactionManager.get_transaction_records
get_transaction_records(tm, xid) ==
    LET transaction == get_transaction(tm, xid) IN
    IF transaction # None THEN transaction[1].records ELSE <<>>

\* TransactionManager.get_statistics
get_statistics(tm) ==
    [total_transactions |-> tm.total_transactions,
     active_count |-> Cardinality(DOMAIN tm.transactions),
     committed_count |-> tm.committed_count,
     aborted_count |-> tm.aborted_count,
     committed_transactions |-> tm.committed_count,
     aborted_transactions |-> tm.aborted_count]

----------------------------------------------------------------------------
(* core/transaction_manager.py: the exceptions of process_record           *)
(* The statements that can raise are the subscriptions d[k] and "del d[k]" *)
(* of a dict (KeyError when k is not a key).  For each method, the         *)
(* operator below is TRUE when one of its subscriptions, taken in program  *)
(* order on the tracker as it is at that statement, raises.                *)

KeyError(d, k) == k \notin DOMAIN d

\* lines 193-199: one round of the loop per subxid
RECURSIVE _finish_subtransactions_raises(_, _, _, _, _)
_finish_subtransactions_raises(tm, todo, state, record, field) ==
    IF todo = {} THEN FALSE
    ELSE LET subxid == CHOOSE s \in todo : TRUE IN
         \/ /\ subxid \in DOMAIN tm.transactions
            /\ \/ KeyError(tm.transactions, subxid)
               \/ KeyError(tm.transactions, subxid)
         \/ _finish_subtransactions_raises(
                _finish_subtransactions(tm, {subxid}, state, record, field),
                todo \ {subxid}, state, record, field)

\* _commit_transaction with the guard "if xid in self.transactions" dropped
_commit_transaction_raises_unguarded(tm, xid, record) ==
    KeyError(tm.transactions, xid)

\* lines 182 (subscription), 189 (del), 193-199 (loop)
_commit_transaction_raises(tm, xid, record) ==
    /\ xid \in DOMAIN tm.transactions
    /\ \/ KeyError(tm.transactions, xid)
       \/ KeyError(tm.transactions, xid)
       \/ LET tm1 == [tm EXCEPT !.transactions = DictDel(@, xid)] IN
          _finish_subtransactions_raises(
              tm1, tm.transactions[xid].subtransactions, COMMITTED, record,
              "committed_transactions")

\* lines 210 (subscription), 217 (del), 221-227 (loop)
_abort_transaction_raises(tm, xid, record) ==
    /\ xid \in DOMAIN tm.transactions
    /\ \/ KeyError(tm.transactions, xid)
       \/ KeyError(tm.transactions, xid)
       \/ LET tm1 == [tm EXCEPT !.transactions = DictDel(@, xid)] IN
          _finish_subtransactions_raises(
              tm1, tm.transactions[xid].subtransactions, ABORTED, record,
              "aborted_transactions")

\* line 238
_prepare_transaction_raises(tm, xid, record) ==
    xid \in DOMAIN tm.transactions /\ KeyError(tm.transactions, xid)

_commit_prepared_transaction_raises(tm, xid, record) ==
    xid \in DOMAIN tm.transactions /\ _commit_transaction_raises(tm, xid, record)

_abort_prepared_transaction_raises(tm, xid, record) ==
    xid \in DOMAIN tm.transactions /\ _abort_transaction_raises(tm, xid, record)

\* line 296
_process_other_transaction_record_raises(tm, record, info) ==
    LET xid == record.xl_xid IN
    ~(xid \notin DOMAIN tm.transactions) /\ KeyError(tm.transactions, xid)

\* line 154, on the tracker after _create_transaction
_process_general_record_raises(tm, record) ==
    LET xid == record.xl_xid
        tm1 == IF xid \notin DOMAIN tm.transactions
               THEN _create_transaction(tm, xid, record) ELSE tm
    IN  xid \in DOMAIN tm1.transactions /\ KeyError(tm1.transactions, xid)

_process_transaction_record_raises(tm, record) ==
    LET info == get_info(record)
        xid == record.xl_xid
    IN  CASE info = XLOG_XACT_COMMIT -> _commit_transaction_raises(tm, xid, record)
          [] info = XLOG_XACT_ABORT -> _abort_transaction_raises(tm, xid, record)
          [] info = XLOG_XACT_PREPARE -> _prepare_transaction_raises(tm, xid, record)
          [] info = XLOG_XACT_COMMIT_PREPARED ->
                 _commit_prepared_transaction_raises(tm, xid, record)
          [] info = XLOG_XACT_ABORT_PREPARED ->
                 _abort_prepared_transaction_raises(tm, xid, record)
          [] info = XLOG_XACT_ASSIGNMENT -> FALSE
          [] info = XLOG_XACT_INVALID -> FALSE
          [] OTHER -> _process_other_transaction_record_raises(tm, record, info)

process_record_raises(tm, record) ==
    LET rmgr_name == get_rmgr_name(record.xl_rmid) IN
    IF rmgr_name = "Transaction"
    THEN _process_transaction_record_raises(tm, record)
    ELSE IF record.xl_xid # 0
         THEN _process_general_record_raises(tm, record)
         ELSE FALSE

----------------------------------------------------------------------------
(* The records fed to the tracker and the calls made on it *)

\* keys of RMGR_IDS
RM_XACT_ID == 1
RM_HEAP_ID == 10

\* xid 0 (no transaction) and the xids of the subtransaction scenario
XidInputs == {0, 3, 7}

NonzeroXidInputs == XidInputs \ {0}

\* xl_prev of the record fed by call number ncalls + 1: the records of a
\* stream point back at increasing positions 0/A0, 0/C0, 0/E0, 0/100, ...
PrevInputs == {160 + 32 * ncalls}

\* xl_info bytes of Transaction-rmgr records: the seven opcodes the
\* dispatcher names, and one byte with a non-zero low nibble
XactInfoInputs == {XLOG_XACT_COMMIT, XLOG_XACT_ABORT, XLOG_XACT_PREPARE,
                   XLOG_XACT_COMMIT_PREPARED, XLOG_XACT_ABORT_PREPARED,
                   XLOG_XACT_ASSIGNMENT, XLOG_XACT_INVALID, 1}

\* main data of an assignment record, decoded: <<xtop, xsub>>; empty otherwise
MainDataInputs(xid, info) ==
    IF info = XLOG_XACT_ASSIGNMENT
    THEN {<<xid, subxid>> : subxid \in NonzeroXidInputs \ {xid}}
    ELSE {<<>>}

XLogRecord(xid, prev, info, rmid, main_data) ==
    [xl_xid |-> xid, xl_prev |-> prev, xl_info |-> info, xl_rmid |-> rmid,
     main_data |-> main_data]

RecordInputs ==
    {XLogRecord(xid, prev, 0, RM_HEAP_ID, <<>>) :
        xid \in XidInputs, prev \in PrevInputs}
    \cup
    UNION {{XLogRecord(xid, prev, info, RM_XACT_ID, main_data) :
               main_data \in MainDataInputs(xid, info), prev \in PrevInputs} :
           xid \in XidInputs, info \in XactInfoInputs}

SetTM(tm) ==
    /\ transactions' = tm.transactions
    /\ committed_transactions' = tm.committed_transactions
    /\ aborted_transactions' = tm.aborted_transactions
    /\ subtransaction_map' = tm.subtransaction_map
    /\ total_transactions' = tm.total_transactions
    /\ committed_count' = tm.committed_count
    /\ aborted_count' = tm.aborted_count

\* no segment file is being read
NoReader ==
    /\ segment = [pages |-> <<>>, tail |-> 0]
    /\ start_lsn_arg = None
    /\ end_lsn_arg = None
    /\ current_position = 0
    /\ pc = "idle"
    /\ page_data = 0
    /\ reader_position = 0
    /\ reader_records = <<>>
    /\ page_records = <<>>
    /\ emitted = <<>>
    /\ file_handle = None

\* no BinaryReader is in use outside the page parser
NoBytes ==
    /\ data = <<>>
    /\ outcome = None

\* no LSN is being constructed
NoLsn ==
    /\ lsn_str = <<>>
    /\ lsn_value = None

\* no WALFile is being parsed
NoWalFile == pages_read = <<>>

Init ==
    /\ transactions = NewTM.transactions
    /\ committed_transactions = NewTM.committed_transactions
    /\ aborted_transactions = NewTM.aborted_transactions
    /\ subtransaction_map = NewTM.subtransaction_map
    /\ total_transactions = NewTM.total_transactions
    /\ committed_count = NewTM.committed_count
    /\ aborted_count = NewTM.aborted_count
    /\ ncalls = 0
    /\ call = [op |-> "__init__"]
    /\ NoReader
    /\ NoBytes
    /\ NoLsn
    /\ NoWalFile

ProcessRecord(record) ==
    /\ ncalls < MaxCalls
    /\ SetTM(process_record(TM, record))
    /\ ncalls' = ncalls + 1
    /\ call' = [op |-> "process_record", record |-> record]
    /\ UNCHANGED <<readerVars, moreVars>>

AddSubtransaction(parent_xid, subxid) ==
    /\ ncalls < MaxCalls
    /\ SetTM(add_subtransaction(TM, parent_xid, subxid))
    /\ ncalls' = ncalls + 1
    /\ call' = [op |-> "add_subtransaction", parent_xid |-> parent_xid,
                subxid |-> subxid]
    /\ UNCHANGED <<readerVars, moreVars>>

Next ==
    \/ \E record \in RecordInputs : ProcessRecord(record)
    \/ \E parent_xid \in NonzeroXidInputs :
           \E subxid \in NonzeroXidInputs \ {parent_xid} :
               AddSubtransaction(parent_xid, subxid)

Spec == Init /\ [][Next]_vars

\* the record of the last process_record call is fed once more
ProcessRecordAgain ==
    /\ ncalls < MaxCalls
    /\ call.op = "process_record"
    /\ SetTM(process_record(TM, call.record))
    /\ ncalls' = ncalls + 1
    /\ call' = [op |-> "process_record", record |-> call.record, again |-> TRUE]
    /\ UNCHANGED <<readerVars, moreVars>>

NextAgain ==
    \/ \E record \in RecordInputs : ProcessRecord(record)
    \/ \E parent_xid \in NonzeroXidInputs :
           \E subxid \in NonzeroXidInputs \ {parent_xid} :
               AddSubtransaction(parent_xid, subxid)
    \/ ProcessRecordAgain

\* streams in which a record may be delivered twice in a row
SpecAgain == Init /\ [][NextAgain]_vars

\* a tracker that is fed records and nothing else
RecordsNext == \E record \in RecordInputs : ProcessRecord(record)

RecordsSpec == Init /\ [][RecordsNext]_vars

----------------------------------------------------------------------------
(* core/xlog_reader.py: XLogReader over one segment file                   *)
(*                                                                         *)
(* A segment file is its whole pages followed by "tail" further bytes.  A  *)
(* page is its magic and the total lengths of the records written into it  *)
(* one after the other from offset 24 on; the bytes after the last record  *)
(* are zero.  "bad" numbers the record whose body is malformed, so that    *)
(* XLogRecord(reader) raises EOFError on it (0: none).  A decoded record   *)
(* keeps xl_tot_len and xl_prev, and "start", the file offset its header   *)
(* was read at.                                                            *)

WAL_BLOCK_SIZE == 8192
XLOG_PAGE_MAGIC == 53401
SIZEOF_XLOG_RECORD == 24
SIZEOF_WAL_PAGE_HEADER == 24

\* os.path.getsize(wal_file_path)
file_size(seg) == WAL_BLOCK_SIZE * Len(seg.pages) + seg.tail

\* file offset of the first byte of page k
PageBase(k) == (k - 1) * WAL_BLOCK_SIZE

\* offset within its page of the header of the i-th record written to it
RECURSIVE SlotStart(_, _)
SlotStart(page, i) ==
    IF i = 1 THEN SIZEOF_WAL_PAGE_HEADER
    ELSE SlotStart(page, i - 1) + page.lens[i - 1]

\* xl_prev of the i-th record of page k: where the record written before it
\* starts (0 for the first record of the file)
PrevOf(seg, k, i) ==
    IF i > 1 THEN PageBase(k) + SlotStart(seg.pages[k], i - 1)
    ELSE IF k > 1 /\ seg.pages[k - 1].lens # <<>>
         THEN PageBase(k - 1)
              + SlotStart(seg.pages[k - 1], Len(seg.pages[k - 1].lens))
         ELSE 0

\* the 24 bytes at offset pos of page k as XLogRecord.__init__ decodes them
HeaderAt(seg, k, pos) ==
    LET page == seg.pages[k]
        here == {i \in DOMAIN page.lens : SlotStart(page, i) = pos}
    IN  IF here # {}
        THEN LET i == CHOOSE j \in here : TRUE IN
             [xl_tot_len |-> page.lens[i], xl_prev |-> PrevOf(seg, k, i),
              start |-> PageBase(k) + pos, intact |-> i # page.bad]
        ELSE [xl_tot_len |-> 0, xl_prev |-> 0,
              start |-> PageBase(k) + pos, intact |-> TRUE]

\* the XLogRecord built from a header
DecodedRecord(header) ==
    [xl_tot_len |-> header.xl_tot_len, xl_prev |-> header.xl_prev,
     start |-> header.start]

\* XLogReader._seek_to_lsn: the new current_position
_seek_to_lsn(lsn) == (file_offset(lsn) \div WAL_BLOCK_SIZE) * WAL_BLOCK_SIZE

\* XLogReader._current_lsn
_current_lsn(pos) == pos

\* XLogReader._record_lsn
_record_lsn(record) == record.xl_prev

\* line 113 without the addition: current_position is left where it was
after_read_stays(pos, page_data_len) == pos

\* line 113: self.current_position += len(page_data)
after_read(pos, page_data_len) == pos + page_data_len

\* line 127 with the test always passing
magic_matches_any(page) == TRUE

\* line 127: page_header.magic against self.XLOG_PAGE_MAGIC
magic_matches(page) == page.magic = XLOG_PAGE_MAGIC

\* line 152 with the test never passing
runs_over_never(record_start, total_len) == FALSE

\* line 152: record_start + total_len > len(page_data)
runs_over(record_start, total_len) == record_start + total_len > WAL_BLOCK_SIZE

\* line 160
next_record(record_start, total_len) == record_start + total_len

\* the pages a segment is made of
GoodPage(lens, bad) == [magic |-> XLOG_PAGE_MAGIC, lens |-> lens, bad |-> bad]

\* records at 0x18, 0x100, 0x200 and 0x300, the last one ending the page
FullPage == GoodPage(<<232, 256, 256, 7424>>, 0)

\* two records, the rest of the page zero
ZeroPaddedPage == GoodPage(<<232, 256>>, 0)

\* a record of total length 200 starting 16 bytes before the page boundary
CrossingPage == GoodPage(<<8152, 200>>, 0)

\* a record whose header fits into the page and whose body does not
OverrunPage == GoodPage(<<8000, 400>>, 0)

\* a page that starts with the rest of a record of the page before: its
\* first bytes, read as a total length, are 0x01010101
ContinuationPage == GoodPage(<<16843009>>, 0)

\* the body of the second record is malformed
BadRecordPage == GoodPage(<<232, 256, 7680>>, 2)

\* the page FullPage with another magic
BadMagicPage == [magic |-> 0, lens |-> FullPage.lens, bad |-> 0]

\* the page FullPage with its last record one byte longer
OneByteLongPage == GoodPage(<<232, 256, 256, 7425>>, 0)

\* a page filled with 0x00
ZeroPage == [magic |-> 0, lens |-> <<>>, bad |-> 0]

\* the second record declares a total length of 16, less than its 24-byte
\* header; the next record is written 16 bytes after it and ends the page
ShortRecordPage == GoodPage(<<232, 16, 7920>>, 0)

PageInputs == {FullPage, ZeroPaddedPage, CrossingPage, OverrunPage,
               ContinuationPage, BadRecordPage, BadMagicPage,
               OneByteLongPage, ZeroPage, ShortRecordPage}

\* bytes after the last whole page
TailInputs == {0, 100}

SegmentInputs ==
    {[pages |-> pages, tail |-> tail] :
        pages \in UNION {[1..n -> PageInputs] : n \in 0..MaxPages},
        tail \in TailInputs}

\* 0/150 and 0/250, and the same offsets in the second page
StartLsnInputs == {None, Some(336), Some(WAL_BLOCK_SIZE + 336)}
EndLsnInputs == {None, Some(592), Some(WAL_BLOCK_SIZE + 592)}

\* XLogReader.__init__ on a segment file, within "with"
ReaderInit ==
    /\ transactions = NewTM.transactions
    /\ committed_transactions = NewTM.committed_transactions
    /\ aborted_transactions = NewTM.aborted_transactions
    /\ subtransaction_map = NewTM.subtransaction_map
    /\ total_transactions = NewTM.total_transactions
    /\ committed_count = NewTM.committed_count
    /\ aborted_count = NewTM.aborted_count
    /\ ncalls = 0
    /\ call = [op |-> "__init__"]
    /\ segment \in SegmentInputs
    /\ start_lsn_arg = None
    /\ end_lsn_arg = None
    /\ current_position = 0
    /\ pc = "idle"
    /\ page_data = 0
    /\ reader_position = 0
    /\ reader_records = <<>>
    /\ page_records = <<>>
    /\ emitted = <<>>
    /\ file_handle = Some("rb")
    /\ NoBytes
    /\ NoLsn
    /\ NoWalFile

\* read_records(start_lsn, end_lsn) up to the loop (lines 64-69); with no
\* file handle it raises RuntimeError
ReadRecords(start, end) ==
    /\ pc = "idle"
    /\ start_lsn_arg' = start
    /\ end_lsn_arg' = end
    /\ IF file_handle = None
       THEN /\ pc' = "RuntimeError"
            /\ UNCHANGED current_position
       ELSE /\ current_position' = IF start # None THEN _seek_to_lsn(start[1])
                                   ELSE current_position
            /\ pc' = "while"
    /\ UNCHANGED <<segment, page_data, reader_position, reader_records,
                   page_records, emitted>>
    /\ UNCHANGED <<trackerVars, moreVars>>

\* the loop test and the end_lsn test (lines 71-74)
While ==
    /\ pc = "while"
    /\ pc' = IF /\ current_position < file_size(segment)
                /\ ~(end_lsn_arg # None
                     /\ _current_lsn(current_position) > end_lsn_arg[1])
             THEN "page" ELSE "done"
    /\ UNCHANGED <<segment, start_lsn_arg, end_lsn_arg, current_position,
                   page_data, reader_position, reader_records, page_records,
                   emitted>>
    /\ UNCHANGED <<trackerVars, moreVars>>

\* _read_page_records up to its loop (lines 108-133); self.file_handle.read
\* raises AttributeError when file_handle is None
ReadPage ==
    /\ pc = "page"
    /\ IF current_position + WAL_BLOCK_SIZE > file_size(segment)
       THEN /\ page_records' = <<>>
            /\ pc' = "for"
            /\ UNCHANGED <<current_position, page_data, reader_position,
                           reader_records>>
       ELSE IF file_handle = None
       THEN /\ pc' = "AttributeError"
            /\ UNCHANGED <<current_position, page_data, reader_position,
                           reader_records, page_records>>
       ELSE LET k == (current_position \div WAL_BLOCK_SIZE) + 1 IN
            /\ page_data' = k
            /\ current_position' = after_read(current_position, WAL_BLOCK_SIZE)
            /\ IF ~magic_matches(segment.pages[k])
               THEN /\ page_records' = <<>>
                    /\ pc' = "for"
                    /\ UNCHANGED <<reader_position, reader_records>>
               ELSE /\ reader_position' = SIZEOF_WAL_PAGE_HEADER
                    /\ reader_records' = <<>>
                    /\ pc' = "parse"
                    /\ UNCHANGED page_records
    /\ UNCHANGED <<segment, start_lsn_arg, end_lsn_arg, emitted>>
    /\ UNCHANGED <<trackerVars, moreVars>>

\* one round of the loop of _read_page_records (lines 135-170)
ParseRecord ==
    /\ pc = "parse"
    /\ LET record_start == reader_position
           header == HeaderAt(segment, page_data, record_start)
           total_len == header.xl_tot_len
           leave == \/ ~(reader_position < WAL_BLOCK_SIZE)
                    \/ WAL_BLOCK_SIZE - reader_position < SIZEOF_XLOG_RECORD
                    \/ runs_over(record_start, total_len)
                    \/ ~header.intact
       IN  IF leave
           THEN /\ page_records' = reader_records
                /\ pc' = "for"
                /\ UNCHANGED <<reader_position, reader_records>>
           ELSE /\ Len(reader_records) < MaxRecords
                /\ reader_records' = Append(reader_records, DecodedRecord(header))
                /\ IF next_record(record_start, total_len) >= WAL_BLOCK_SIZE
                   THEN /\ page_records' = reader_records'
                        /\ pc' = "for"
                        /\ UNCHANGED reader_position
                   ELSE /\ reader_position' = next_record(record_start, total_len)
                        /\ UNCHANGED <<pc, page_records>>
    /\ UNCHANGED <<segment, start_lsn_arg, end_lsn_arg, current_position,
                   page_data, emitted>>
    /\ UNCHANGED <<trackerVars, moreVars>>

\* one round of "for record in page_records" (lines 78-81)
Yield ==
    /\ pc = "for"
    /\ IF page_records = <<>>
       THEN /\ pc' = "while"
            /\ UNCHANGED <<page_records, emitted>>
       ELSE LET record == Head(page_records) IN
            IF end_lsn_arg # None /\ _record_lsn(record) > end_lsn_arg[1]
            THEN /\ pc' = "done"
                 /\ UNCHANGED <<page_records, emitted>>
            ELSE /\ emitted' = Append(emitted, record)
                 /\ page_records' = Tail(page_records)
                 /\ UNCHANGED pc
    /\ UNCHANGED <<segment, start_lsn_arg, end_lsn_arg, current_position,
                   page_data, reader_position, reader_records>>
    /\ UNCHANGED <<trackerVars, moreVars>>

ReaderNext ==
    \/ \E start \in StartLsnInputs, end \in EndLsnInputs : ReadRecords(start, end)
    \/ While
    \/ ReadPage
    \/ ParseRecord
    \/ Yield

ReaderSpec == ReaderInit /\ [][ReaderNext]_vars

\* the consumer iterates to exhaustion: the generator is always resumed
FairReaderSpec == ReaderSpec /\ WF_vars(ReaderNext)

----------------------------------------------------------------------------
(* The scope of an XLogReader: "with XLogReader(path) as reader"           *)

\* one page at most, for the reader to be entered and left at any point
ScopeSegmentInputs == {seg \in SegmentInputs : Len(seg.pages) <= 1}

\* XLogReader.__init__ on a segment file
ScopeInit ==
    /\ transactions = NewTM.transactions
    /\ committed_transactions = NewTM.committed_transactions
    /\ aborted_transactions = NewTM.aborted_transactions
    /\ subtransaction_map = NewTM.subtransaction_map
    /\ total_transactions = NewTM.total_transactions
    /\ committed_count = NewTM.committed_count
    /\ aborted_count = NewTM.aborted_count
    /\ ncalls = 0
    /\ call = [op |-> "__init__"]
    /\ segment \in ScopeSegmentInputs
    /\ start_lsn_arg = None
    /\ end_lsn_arg = None
    /\ current_position = 0
    /\ pc = "idle"
    /\ page_data = 0
    /\ reader_position = 0
    /\ reader_records = <<>>
    /\ page_records = <<>>
    /\ emitted = <<>>
    /\ file_handle = None
    /\ NoBytes
    /\ NoLsn
    /\ NoWalFile

\* what a call on the scope leaves alone
ScopeFrame ==
    /\ UNCHANGED <<transactions, committed_transactions, aborted_transactions,
                   subtransaction_map, total_transactions, committed_count,
                   aborted_count, ncalls>>
    /\ UNCHANGED readerVars
    /\ UNCHANGED <<data, outcome, lsn_str, lsn_value, pages_read>>

\* XLogReader.__enter__, on a reader that is not open and has read nothing
Enter ==
    /\ file_handle = None
    /\ pc = "idle"
    /\ file_handle' = Some("rb")
    /\ call' = [op |-> "__enter__"]
    /\ ScopeFrame

\* XLogReader.__exit__ with the handle left in place after close()
Exit_keeps_handle ==
    /\ file_handle' = file_handle
    /\ call' = [op |-> "__exit__"]
    /\ ScopeFrame

\* XLogReader.__exit__, wherever the iteration stands
Exit ==
    /\ file_handle' = IF file_handle # None THEN None ELSE file_handle
    /\ call' = [op |-> "__exit__"]
    /\ ScopeFrame

ScopeNext ==
    \/ Enter
    \/ Exit
    \/ \E start \in StartLsnInputs, end \in EndLsnInputs : ReadRecords(start, end)
    \/ While
    \/ ReadPage
    \/ ParseRecord
    \/ Yield

ScopeSpec == ScopeInit /\ [][ScopeNext]_vars

----------------------------------------------------------------------------
(* utils/binary_reader.py: BinaryReader                                    *)
(*                                                                         *)
(* A reader is its data, a sequence of bytes, and its position.  A call    *)
(* on it gives the reader it leaves, the exception it raised (Optional)    *)
(* and the value it returned (Optional).  An unsigned integer decoded from *)
(* bytes is kept exactly, as its base-256 digits from the least            *)
(* significant on with no zero digit at the end (<<>> is 0); a signed one  *)
(* is its sign and the digits of its magnitude.                            *)

BinaryReader(bytes, pos) == [data |-> bytes, position |-> pos]

Returned(reader, v) == [reader |-> reader, raised |-> None, value |-> Some(v)]

Raised(reader, exc) == [reader |-> reader, raised |-> Some(exc), value |-> None]

\* the call made next when "made" returned, else the exception goes on
Then(made, next(_)) == IF made.raised # None THEN made ELSE next(made)

\* the place in a sequence of n items that the bound i of a slice stands
\* for: a negative bound counts from the end
SliceBound(i, n) ==
    IF i < 0 THEN (IF i + n < 0 THEN 0 ELSE i + n)
    ELSE IF i > n THEN n ELSE i

\* data[a:b]
Slice(bytes, a, b) ==
    LET first == SliceBound(a, Len(bytes))
        last == SliceBound(b, Len(bytes))
    IN  IF first >= last THEN <<>> ELSE SubSeq(bytes, first + 1, last)

\* bytes.rstrip(b'\x00')
RECURSIVE rstrip(_)
rstrip(bytes) ==
    IF bytes # <<>> /\ bytes[Len(bytes)] = 0
    THEN rstrip(SubSeq(bytes, 1, Len(bytes) - 1))
    ELSE bytes

\* struct.unpack of '<B', '<H', '<I', '<Q': the little-endian number
unpack_unsigned(bytes) == rstrip(bytes)

\* 2^(8 * Len(bytes)) minus the number whose digits are bytes, which is not 0
RECURSIVE Negated(_, _)
Negated(bytes, borrowed) ==
    IF bytes = <<>> THEN <<>>
    ELSE IF ~borrowed /\ Head(bytes) = 0
         THEN <<0>> \o Negated(Tail(bytes), FALSE)
         ELSE <<(IF borrowed THEN 255 ELSE 256) - Head(bytes)>>
              \o Negated(Tail(bytes), TRUE)

\* struct.unpack of '<i' and '<q': two's complement
unpack_signed(bytes) ==
    IF bytes[Len(bytes)] >= 128
    THEN [negative |-> TRUE, magnitude |-> rstrip(Negated(bytes, FALSE))]
    ELSE [negative |-> FALSE, magnitude |-> rstrip(bytes)]

\* no data in the model is as long as this
Huge == 16777216

\* the number as an integer when it is below Huge, and Huge when it is not
int_value(digits) ==
    IF Len(digits) > 3 THEN Huge
    ELSE (IF Len(digits) > 0 THEN digits[1] ELSE 0)
         + (IF Len(digits) > 1 THEN 256 * digits[2] ELSE 0)
         + (IF Len(digits) > 2 THEN 65536 * digits[3] ELSE 0)

\* bytes.decode('utf-8', errors='ignore') of bytes among which every byte
\* above 127 stands alone: such a byte is dropped
RECURSIVE decode(_)
decode(bytes) ==
    IF bytes = <<>> THEN <<>>
    ELSE (IF Head(bytes) < 128 THEN <<Head(bytes)>> ELSE <<>>)
         \o decode(Tail(bytes))

\* BinaryReader.read_bytes with the position advanced by one more
read_bytes_overshoots(reader, count) ==
    IF reader.position + count > Len(reader.data)
    THEN Raised(reader, "EOFError")
    ELSE Returned([reader EXCEPT !.position = @ + count + 1],
                  Slice(reader.data, reader.position, reader.position + count))

\* BinaryReader.read_bytes with the position advanced before the test
read_bytes_moves_first(reader, count) ==
    IF reader.position + count > Len(reader.data)
    THEN Raised([reader EXCEPT !.position = @ + count], "EOFError")
    ELSE Returned([reader EXCEPT !.position = @ + count],
                  Slice(reader.data, reader.position, reader.position + count))

\* BinaryReader.read_bytes
read_bytes(reader, count) ==
    IF reader.position + count > Len(reader.data)
    THEN Raised(reader, "EOFError")
    ELSE Returned([reader EXCEPT !.position = @ + count],
                  Slice(reader.data, reader.position, reader.position + count))

\* read_uint8, read_uint16, read_uint32, read_uint64
\* struct.unpack raises struct.error on bytes that are not of the size
read_unsigned(reader, size) ==
    Then(read_bytes(reader, size),
         LAMBDA got : IF Len(got.value[1]) # size
                      THEN Raised(got.reader, "struct.error")
                      ELSE Returned(got.reader, unpack_unsigned(got.value[1])))

read_uint8(reader) == read_unsigned(reader, 1)

read_uint16(reader) == read_unsigned(reader, 2)

read_uint32(reader) == read_unsigned(reader, 4)

read_uint64(reader) == read_unsigned(reader, 8)

\* read_int32, read_int64
read_signed(reader, size) ==
    Then(read_bytes(reader, size),
         LAMBDA got : IF Len(got.value[1]) # size
                      THEN Raised(got.reader, "struct.error")
                      ELSE Returned(got.reader, unpack_signed(got.value[1])))

read_int32(reader) == read_signed(reader, 4)

read_int64(reader) == read_signed(reader, 8)

\* BinaryReader.read_string(length), encoding 'utf-8'
read_string(reader, length) ==
    Then(read_bytes(reader, length),
         LAMBDA got : Returned(got.reader, decode(rstrip(got.value[1]))))

\* the loop of BinaryReader.read_null_terminated_string: the reader it
\* leaves and the bytes before the null byte
RECURSIVE read_until_null(_, _)
read_until_null(reader, result) ==
    IF reader.position >= Len(reader.data) THEN Returned(reader, result)
    ELSE LET byte == read_bytes(reader, 1) IN
         IF byte.value[1] = <<0>> THEN Returned(byte.reader, result)
         ELSE read_until_null(byte.reader, result \o byte.value[1])

\* BinaryReader.read_null_terminated_string, encoding 'utf-8'
read_null_terminated_string(reader) ==
    Then(read_until_null(reader, <<>>),
         LAMBDA got : Returned(got.reader, decode(got.value[1])))

\* BinaryReader.peek_bytes with the bytes consumed
peek_bytes_consumes(reader, count) ==
    IF reader.position + count > Len(reader.data)
    THEN Returned([reader EXCEPT !.position = Len(reader.data)],
                  Slice(reader.data, reader.position, Len(reader.data)))
    ELSE Returned([reader EXCEPT !.position = @ + count],
                  Slice(reader.data, reader.position, reader.position + count))

\* BinaryReader.peek_bytes
peek_bytes(reader, count) ==
    IF reader.position + count > Len(reader.data)
    THEN Returned(reader, Slice(reader.data, reader.position, Len(reader.data)))
    ELSE Returned(reader,
                  Slice(reader.data, reader.position, reader.position + count))

\* BinaryReader.skip_bytes; it returns None
skip_bytes(reader, count) ==
    IF reader.position + count > Len(reader.data)
    THEN Raised(reader, "EOFError")
    ELSE Returned([reader EXCEPT !.position = @ + count], None)

\* BinaryReader.is_eof
is_eof(reader) == reader.position >= Len(reader.data)

\* BinaryReader.remaining_bytes
remaining_bytes(reader) ==
    IF Len(reader.data) - reader.position > 0
    THEN Len(reader.data) - reader.position ELSE 0

\* BinaryReader.tell
tell(reader) == reader.position

\* BinaryReader.seek with the end of the data out of range
seek_excludes_end(reader, pos) ==
    IF pos < 0 \/ pos >= Len(reader.data)
    THEN Raised(reader, "ValueError")
    ELSE Returned([reader EXCEPT !.position = pos], None)

\* BinaryReader.seek; it returns None
seek(reader, pos) ==
    IF pos < 0 \/ pos > Len(reader.data)
    THEN Raised(reader, "ValueError")
    ELSE Returned([reader EXCEPT !.position = pos], None)

----------------------------------------------------------------------------
(* core/wal_parser.py: XLogRecord decoded from a BinaryReader              *)

\* XLogRecord._parse_data_short
_parse_data_short(reader, record) ==
    Then(read_bytes(reader, 1), LAMBDA id :
    Then(read_uint8(id.reader), LAMBDA data_length :
    Then(read_bytes(data_length.reader, int_value(data_length.value[1])),
         LAMBDA main :
    Returned(main.reader, [record EXCEPT !.main_data = main.value[1]]))))

\* XLogRecord._parse_data_long
_parse_data_long(reader, record) ==
    Then(read_bytes(reader, 1), LAMBDA id :
    Then(read_uint32(id.reader), LAMBDA data_length :
    Then(read_bytes(data_length.reader, int_value(data_length.value[1])),
         LAMBDA main :
    Returned(main.reader, [record EXCEPT !.main_data = main.value[1]]))))

\* XLogRecord._parse_block_image: the value is block_info['image'], with
\* hole_length None when the key is not set
_parse_block_image(reader) ==
    Then(read_uint16(reader), LAMBDA length :
    Then(read_uint16(length.reader), LAMBDA hole_offset :
    Then(read_uint8(hole_offset.reader), LAMBDA bimg_info :
    Then(IF /\ BitAnd(int_value(bimg_info.value[1]), 1) # 0
            /\ BitAnd(int_value(bimg_info.value[1]), 28) # 0
         THEN read_uint16(bimg_info.reader)
         ELSE [reader |-> bimg_info.reader, raised |-> None, value |-> None],
         LAMBDA hole_length :
    Then(read_bytes(hole_length.reader, int_value(length.value[1])),
         LAMBDA image :
    Returned(image.reader,
             [length |-> int_value(length.value[1]),
              hole_offset |-> int_value(hole_offset.value[1]),
              bimg_info |-> int_value(bimg_info.value[1]),
              hole_length |-> hole_length.value,
              data |-> image.value[1]]))))))

\* the three fields of block_info['relfilenode']
read_relfilenode(reader) ==
    Then(read_uint32(reader), LAMBDA spcNode :
    Then(read_uint32(spcNode.reader), LAMBDA dbNode :
    Then(read_uint32(dbNode.reader), LAMBDA relNode :
    Returned(relNode.reader,
             [spcNode |-> spcNode.value[1], dbNode |-> dbNode.value[1],
              relNode |-> relNode.value[1]]))))

\* _parse_block_reference with the relation node read before the image
_parse_block_reference_node_first(reader, record) ==
    Then(read_uint8(reader), LAMBDA block_id :
    Then(read_uint8(block_id.reader), LAMBDA fork_flags :
    Then(read_uint16(fork_flags.reader), LAMBDA data_length :
    Then(IF BitAnd(int_value(fork_flags.value[1]), 128) = 0
         THEN read_relfilenode(data_length.reader)
         ELSE [reader |-> data_length.reader, raised |-> None, value |-> None],
         LAMBDA relfilenode :
    Then(IF BitAnd(int_value(fork_flags.value[1]), 16) # 0
         THEN _parse_block_image(relfilenode.reader)
         ELSE [reader |-> relfilenode.reader, raised |-> None, value |-> None],
         LAMBDA image :
    Then(read_uint32(image.reader), LAMBDA block_num :
    Then(IF BitAnd(int_value(fork_flags.value[1]), 32) # 0
         THEN read_bytes(block_num.reader, int_value(data_length.value[1]))
         ELSE [reader |-> block_num.reader, raised |-> None, value |-> None],
         LAMBDA block_data :
    Returned(block_data.reader,
             [record EXCEPT !.blocks =
                 Append(@, [id |-> int_value(block_id.value[1]),
                            fork_flags |-> int_value(fork_flags.value[1]),
                            data_length |-> int_value(data_length.value[1]),
                            image |-> image.value,
                            relfilenode |-> relfilenode.value,
                            block_num |-> block_num.value[1],
                            data |-> block_data.value])]))))))))

\* XLogRecord._parse_block_reference: the value is the record with
\* block_info appended to its blocks; a key of block_info that is not set
\* is None
_parse_block_reference(reader, record) ==
    Then(read_uint8(reader), LAMBDA block_id :
    Then(read_uint8(block_id.reader), LAMBDA fork_flags :
    Then(read_uint16(fork_flags.reader), LAMBDA data_length :
    Then(IF BitAnd(int_value(fork_flags.value[1]), 16) # 0
         THEN _parse_block_image(data_length.reader)
         ELSE [reader |-> data_length.reader, raised |-> None, value |-> None],
         LAMBDA image :
    Then(IF BitAnd(int_value(fork_flags.value[1]), 128) = 0
         THEN read_relfilenode(image.reader)
         ELSE [reader |-> image.reader, raised |-> None, value |-> None],
         LAMBDA relfilenode :
    Then(read_uint32(relfilenode.reader), LAMBDA block_num :
    Then(IF BitAnd(int_value(fork_flags.value[1]), 32) # 0
         THEN read_bytes(block_num.reader, int_value(data_length.value[1]))
         ELSE [reader |-> block_num.reader, raised |-> None, value |-> None],
         LAMBDA block_data :
    Returned(block_data.reader,
             [record EXCEPT !.blocks =
                 Append(@, [id |-> int_value(block_id.value[1]),
                            fork_flags |-> int_value(fork_flags.value[1]),
                            data_length |-> int_value(data_length.value[1]),
                            image |-> image.value,
                            relfilenode |-> relfilenode.value,
                            block_num |-> block_num.value[1],
                            data |-> block_data.value])]))))))))

\* the loop of XLogRecord._parse_record_data (lines 59-82)
RECURSIVE _parse_record_loop(_, _, _)
_parse_record_loop(reader, data_end, record) ==
    IF ~(tell(reader) < data_end) THEN Returned(reader, record)
    ELSE LET next_byte == peek_bytes(reader, 1).value[1] IN
         IF next_byte = <<>> THEN Returned(reader, record)
         ELSE IF next_byte[1] = 255 THEN _parse_data_short(reader, record)
         ELSE IF next_byte[1] = 254 THEN _parse_data_long(reader, record)
         ELSE IF next_byte[1] \in {253, 252}
         THEN Then(read_bytes(reader, 1), LAMBDA id :
              Then(skip_bytes(id.reader, IF next_byte[1] = 253 THEN 2 ELSE 4),
                   LAMBDA skipped :
              _parse_record_loop(skipped.reader, data_end, record)))
         ELSE Then(_parse_block_reference(reader, record), LAMBDA block :
              _parse_record_loop(block.reader, data_end, block.value[1]))

\* XLogRecord._parse_record_data
_parse_record_data(reader, record) ==
    LET data_start == tell(reader)
        data_end == data_start + record.xl_tot_len - SIZEOF_XLOG_RECORD
    IN  _parse_record_loop(reader, data_end, record)

\* XLogRecord.__init__(reader): the value is the record
XLogRecord__init__(reader) ==
    Then(read_uint32(reader), LAMBDA xl_tot_len :
    Then(read_uint32(xl_tot_len.reader), LAMBDA xl_xid :
    Then(read_uint64(xl_xid.reader), LAMBDA xl_prev_value :
    Then(read_uint8(xl_prev_value.reader), LAMBDA xl_info :
    Then(read_uint8(xl_info.reader), LAMBDA xl_rmid :
    Then(skip_bytes(xl_rmid.reader, 2), LAMBDA padding :
    Then(read_uint32(padding.reader), LAMBDA xl_crc :
    _parse_record_data(xl_crc.reader,
        [xl_tot_len |-> int_value(xl_tot_len.value[1]),
         xl_xid |-> xl_xid.value[1],
         xl_prev |-> xl_prev_value.value[1],
         xl_info |-> int_value(xl_info.value[1]),
         xl_rmid |-> int_value(xl_rmid.value[1]),
         xl_crc |-> xl_crc.value[1],
         blocks |-> <<>>,
         main_data |-> <<>>]))))))))

----------------------------------------------------------------------------
(* The data a BinaryReader is constructed on, and the calls made on it *)

\* struct.pack('<I', n) for n below Huge
pack_uint32(n) == <<n % 256, (n \div 256) % 256, n \div 65536, 0>>

\* the 24 bytes of a record header: xl_tot_len, xl_xid 3, xl_prev 0/E8,
\* xl_info 0, xl_rmid 1, two bytes of padding, xl_crc
HeaderBytes(tot_len) ==
    pack_uint32(tot_len) \o <<3, 0, 0, 0>> \o <<232, 0, 0, 0, 0, 0, 0, 0>>
    \o <<0, 1>> \o <<0, 0>> \o <<7, 7, 7, 7>>

\* the entries a record body is made of, as the parser reads them:
\*   origin       XLR_BLOCK_ID_ORIGIN and a RepOriginId
\*   top_xid      XLR_BLOCK_ID_TOPLEVEL_XID and a TransactionId
\*   plain_block  block 0, no flag: relfilenode and block number
\*   data_block   block 0, same_rel and has_data, two bytes of data
\*   image_block  block 0, same_rel and has_image, an image of two bytes
\*   hole_block   the same with a compressed image that has a hole
EntryBytes ==
    [origin |-> <<253, 1, 0>>,
     top_xid |-> <<252, 3, 0, 0, 0>>,
     plain_block |-> <<0, 0, 0, 0>> \o <<1, 0, 0, 0, 2, 0, 0, 0, 3, 0, 0, 0>>
                     \o <<5, 0, 0, 0>>,
     data_block |-> <<0, 160, 2, 0>> \o <<5, 0, 0, 0>> \o <<7, 7>>,
     image_block |-> <<0, 144, 0, 0>> \o <<2, 0, 0, 0, 0>> \o <<7, 7>>
                     \o <<5, 0, 0, 0>>,
     hole_block |-> <<0, 144, 0, 0>> \o <<2, 0, 0, 0, 5>> \o <<1, 0>>
                    \o <<7, 7>> \o <<5, 0, 0, 0>>]

\* main data of two bytes: XLR_BLOCK_ID_DATA_SHORT announcing two, one and
\* three bytes, and XLR_BLOCK_ID_DATA_LONG announcing two
MainInputs == {<<255, 2, 7, 7>>, <<255, 1, 7, 7>>, <<255, 3, 7, 7>>,
               <<254>> \o pack_uint32(2) \o <<7, 7>>}

\* what follows the header of a record: main data alone, one block
\* reference or one marker before main data, a body with no main data
BodyInputs ==
    MainInputs
    \cup {EntryBytes[block] \o <<255, 2, 7, 7>> :
             block \in {"plain_block", "data_block", "image_block",
                        "hole_block"}}
    \cup {EntryBytes[marker] \o <<254>> \o pack_uint32(2) \o <<7, 7>> :
             marker \in {"origin", "top_xid"}}
    \cup {<<>>, EntryBytes.origin \o EntryBytes.data_block}

\* a record whose xl_tot_len is the length of what is written, or two more,
\* at the end of the data or followed by four zero bytes
RecordInputsBytes ==
    {HeaderBytes(SIZEOF_XLOG_RECORD + Len(body) + more) \o body \o rest :
        body \in BodyInputs, more \in {0, 2}, rest \in {<<>>, <<0, 0, 0, 0>>}}

\* one block reference as it is written: the header (id 9, fork_flags,
\* data_length 2), for has_image the image header (length 3, hole_offset 8,
\* bimg_info), a hole_length of 6 for a compressed image with a hole and
\* the three image bytes, without same_rel the relation node 1/2/3, the
\* block number 5, for has_data the two bytes of data
BlockBytes(fork_flags, bimg_info) ==
    <<9, fork_flags, 2, 0>>
    \o (IF BitAnd(fork_flags, 16) # 0
        THEN <<3, 0, 8, 0, bimg_info>>
             \o (IF BitAnd(bimg_info, 1) # 0 /\ BitAnd(bimg_info, 28) # 0
                 THEN <<6, 0>> ELSE <<>>)
             \o <<21, 22, 23>>
        ELSE <<>>)
    \o (IF BitAnd(fork_flags, 128) = 0
        THEN <<1, 0, 0, 0, 2, 0, 0, 0, 3, 0, 0, 0>> ELSE <<>>)
    \o <<5, 0, 0, 0>>
    \o (IF BitAnd(fork_flags, 32) # 0 THEN <<31, 32>> ELSE <<>>)

\* every combination of has_image (0x10), has_data (0x20) and same_rel
\* (0x80), and for an image of has_hole (0x01) and a compression bit (0x04)
BlockInputs ==
    {BlockBytes(image + inline + same_rel, bimg_info) :
        image \in {0, 16}, inline \in {0, 32}, same_rel \in {0, 128},
        bimg_info \in {0, 1, 4, 5}}

\* a text byte, the null byte, and a byte that is not UTF-8
ByteInputs == {65, 0, 255}

\* any bytes, up to MaxData of them
PlainInputs == UNION {[1..n -> ByteInputs] : n \in 0..MaxData}

DataInputs == RecordInputsBytes \cup BlockInputs \cup PlainInputs

CountInputs == 0..MaxCount

\* positions seek is called with: before the data, within it, its end, past it
SeekInputs == {-1, 0, MaxCount, Len(data), Len(data) + 1}

readerRest == <<segment, start_lsn_arg, end_lsn_arg, current_position, pc,
                page_data, reader_records, page_records, emitted>>

\* BinaryReader.__init__(data)
BytesInit ==
    /\ transactions = NewTM.transactions
    /\ committed_transactions = NewTM.committed_transactions
    /\ aborted_transactions = NewTM.aborted_transactions
    /\ subtransaction_map = NewTM.subtransaction_map
    /\ total_transactions = NewTM.total_transactions
    /\ committed_count = NewTM.committed_count
    /\ aborted_count = NewTM.aborted_count
    /\ ncalls = 0
    /\ call = [op |-> "__init__"]
    /\ NoReader
    /\ data \in DataInputs
    /\ outcome = None
    /\ NoLsn
    /\ NoWalFile

\* the reader the calls are made on
Reader == BinaryReader(data, reader_position)

\* a call on the reader: what it was, where the reader stood, what came of it
Call(op, args, made) ==
    /\ reader_position' = made.reader.position
    /\ outcome' = Some([op |-> op, args |-> args, position |-> reader_position,
                        raised |-> made.raised, value |-> made.value])
    /\ UNCHANGED <<data, file_handle, lsn_str, lsn_value, pages_read>>
    /\ UNCHANGED readerRest
    /\ UNCHANGED trackerVars

\* the calls on the reader, and XLogRecord(reader)
BytesNext ==
    \/ \E count \in CountInputs :
           Call("read_bytes", <<count>>, read_bytes(Reader, count))
    \/ Call("read_uint8", <<>>, read_uint8(Reader))
    \/ Call("read_uint16", <<>>, read_uint16(Reader))
    \/ Call("read_uint32", <<>>, read_uint32(Reader))
    \/ Call("read_uint64", <<>>, read_uint64(Reader))
    \/ Call("read_int32", <<>>, read_int32(Reader))
    \/ Call("read_int64", <<>>, read_int64(Reader))
    \/ \E length \in CountInputs :
           Call("read_string", <<length>>, read_string(Reader, length))
    \/ Call("read_null_terminated_string", <<>>,
            read_null_terminated_string(Reader))
    \/ \E count \in CountInputs :
           Call("peek_bytes", <<count>>, peek_bytes(Reader, count))
    \/ \E count \in CountInputs :
           Call("skip_bytes", <<count>>, skip_bytes(Reader, count))
    \/ \E pos \in SeekInputs : Call("seek", <<pos>>, seek(Reader, pos))
    \/ Call("XLogRecord", <<>>, XLogRecord__init__(Reader))
    \/ Call("_parse_block_reference", <<>>,
            _parse_block_reference(Reader, [blocks |-> <<>>]))

BytesSpec == BytesInit /\ [][BytesNext]_vars

\* counts and positions of either sign
ArgInputs == (0 - MaxCount)..MaxCount

\* BinaryReader.__init__(data) on any bytes
AnyArgInit ==
    /\ BytesInit
    /\ data \in PlainInputs

\* a call on the reader; the model follows the position down to MaxData + 1
\* places before the data
AnyCall(op, args, made) ==
    /\ made.reader.position >= 0 - (MaxData + 1)
    /\ Call(op, args, made)

\* the reads, skips, peeks and seeks, with arguments of either sign
AnyArgNext ==
    \/ \E count \in ArgInputs :
           AnyCall("read_bytes", <<count>>, read_bytes(Reader, count))
    \/ AnyCall("read_uint8", <<>>, read_uint8(Reader))
    \/ AnyCall("read_uint16", <<>>, read_uint16(Reader))
    \/ AnyCall("read_uint32", <<>>, read_uint32(Reader))
    \/ AnyCall("read_uint64", <<>>, read_uint64(Reader))
    \/ AnyCall("read_int32", <<>>, read_int32(Reader))
    \/ AnyCall("read_int64", <<>>, read_int64(Reader))
    \/ \E length \in ArgInputs :
           AnyCall("read_string", <<length>>, read_string(Reader, length))
    \/ AnyCall("read_null_terminated_string", <<>>,
               read_null_terminated_string(Reader))
    \/ \E count \in ArgInputs :
           AnyCall("peek_bytes", <<count>>, peek_bytes(Reader, count))
    \/ \E count \in ArgInputs :
           AnyCall("skip_bytes", <<count>>, skip_bytes(Reader, count))
    \/ \E pos \in ArgInputs \cup SeekInputs :
           AnyCall("seek", <<pos>>, seek(Reader, pos))

AnyArgSpec == AnyArgInit /\ [][AnyArgNext]_vars

----------------------------------------------------------------------------
(* utils/lsn_utils.py: LSN constructed from text                           *)
(*                                                                         *)
(* A text is the sequence of its characters.  Python's integers have no    *)
(* upper limit: the value of an LSN is kept exactly, as its hexadecimal    *)
(* digits from the least significant on with no zero digit at the end      *)
(* (<<>> is 0).                                                            *)

\* the value of a hexadecimal digit
DigitValue(char) == CHOOSE n \in 0..15 : HexDigits[n + 1] = char

Reverse(seq) == [j \in 1..Len(seq) |-> seq[Len(seq) + 1 - j]]

\* the digits of a number with the zero digits at its upper end removed
RECURSIVE Normal(_)
Normal(digits) ==
    IF digits # <<>> /\ digits[Len(digits)] = 0
    THEN Normal(SubSeq(digits, 1, Len(digits) - 1))
    ELSE digits

\* int(text, 16) of a text of hexadecimal digits, which is not empty
int16(text) == Normal(Reverse([j \in 1..Len(text) |-> DigitValue(text[j])]))

\* format(n, "X") of a number of any size
FormatBigX(n) ==
    IF n = <<>> THEN <<"0">>
    ELSE Reverse([j \in 1..Len(n) |-> HexDigits[n[j] + 1]])

\* n << 32
ShiftLeft32(n) == IF n = <<>> THEN <<>> ELSE <<0, 0, 0, 0, 0, 0, 0, 0>> \o n

\* n >> 32
ShiftRight32(n) == IF Len(n) <= 8 THEN <<>> ELSE SubSeq(n, 9, Len(n))

\* n & 0xFFFFFFFF
Low32(n) == Normal(IF Len(n) <= 8 THEN n ELSE SubSeq(n, 1, 8))

\* a | b, digit by digit
BigOr(a, b) ==
    LET longer == IF Len(a) > Len(b) THEN Len(a) ELSE Len(b)
        digit(n, j) == IF j <= Len(n) THEN n[j] ELSE 0
    IN  [j \in 1..longer |->
            digit(a, j) + digit(b, j) - BitAnd(digit(a, j), digit(b, j))]

\* the places of the character in the text
Places(text, char) == {j \in DOMAIN text : text[j] = char}

\* LSN._parse_string: ValueError without a "/" (line 37), when the split
\* gives more than two parts (line 40) and for int('', 16) (line 42)
LSN__parse_string(text) ==
    IF Places(text, "/") = {} THEN Raised(text, "ValueError")
    ELSE IF Cardinality(Places(text, "/")) > 1 THEN Raised(text, "ValueError")
    ELSE LET slash == CHOOSE j \in Places(text, "/") : TRUE
             high_str == SubSeq(text, 1, slash - 1)
             low_str == SubSeq(text, slash + 1, Len(text))
             high == IF high_str # <<>> THEN int16(high_str) ELSE <<>>
         IN  IF low_str = <<>> THEN Raised(text, "ValueError")
             ELSE Returned(text, BigOr(ShiftLeft32(high), int16(low_str)))

\* LSN.file_id
LSN_file_id(value) == ShiftRight32(value)

\* LSN.file_offset
LSN_file_offset(value) == Low32(value)

\* LSN.to_string
LSN_to_string(value) ==
    FormatBigX(LSN_file_id(value)) \o <<"/">> \o FormatBigX(LSN_file_offset(value))

\* n + 1
RECURSIVE BigIncrement(_)
BigIncrement(n) ==
    IF n = <<>> THEN <<1>>
    ELSE IF n[1] < 15 THEN <<n[1] + 1>> \o Tail(n)
    ELSE <<0>> \o BigIncrement(Tail(n))

\* n // size and n * size, for a size that is a power of 16 (the digits of
\* such a size are zeros below a single 1)
BigFloorDiv(n, size) ==
    IF Len(n) < Len(size) THEN <<>> ELSE SubSeq(n, Len(size), Len(n))

BigTimes(n, size) ==
    IF n = <<>> THEN <<>> ELSE SubSeq(size, 1, Len(size) - 1) \o n

\* LSN.next_segment: the value of the LSN it returns
LSN_next_segment(value, segment_size) ==
    LET next_offset ==
            BigTimes(BigIncrement(BigFloorDiv(LSN_file_offset(value),
                                              segment_size)),
                     segment_size)
    IN  BigOr(ShiftLeft32(LSN_file_id(value)), next_offset)

\* 16 ^ k
PowerOf16(k) == [j \in 1..(k + 1) |-> IF j = k + 1 THEN 1 ELSE 0]

\* segment sizes of 1 MiB, 16 MiB (the default) and 256 MiB
SegmentSizeInputs == {PowerOf16(5), PowerOf16(6), PowerOf16(7)}

\* a digit followed by up to MaxDigits - 1 times one digit, and "0"
HexTextInputs ==
    {<<"0">>}
    \cup {<<first>> \o [j \in 1..n |-> other] :
             first \in {"1", "F"}, other \in {"0", "F"}, n \in 0..(MaxDigits - 1)}

\* the texts HIGH/LOW, and texts that are no LSN
LsnTextInputs ==
    {high \o <<"/">> \o low : high \in HexTextInputs, low \in HexTextInputs}
    \cup {<<"1">>, <<"1", "/", "2", "/", "3">>, <<"5", "/">>, <<"/", "5">>}

\* before LSN(lsn_str)
LsnInit ==
    /\ transactions = NewTM.transactions
    /\ committed_transactions = NewTM.committed_transactions
    /\ aborted_transactions = NewTM.aborted_transactions
    /\ subtransaction_map = NewTM.subtransaction_map
    /\ total_transactions = NewTM.total_transactions
    /\ committed_count = NewTM.committed_count
    /\ aborted_count = NewTM.aborted_count
    /\ ncalls = 0
    /\ call = [op |-> "__init__"]
    /\ NoReader
    /\ NoBytes
    /\ NoWalFile
    /\ lsn_str \in LsnTextInputs
    /\ lsn_value = None

LsnFrame ==
    /\ UNCHANGED <<lsn_str, data, file_handle, pages_read>>
    /\ UNCHANGED readerVars
    /\ UNCHANGED trackerVars

\* LSN(lsn_str): LSN.__init__ on a str
NewLSN ==
    /\ lsn_value = None
    /\ outcome = None
    /\ LET parsed == LSN__parse_string(lsn_str) IN
       /\ lsn_value' = parsed.value
       /\ outcome' = Some([op |-> "LSN", raised |-> parsed.raised,
                           value |-> None])
    /\ LsnFrame

\* to_string() on the LSN constructed
LsnToString ==
    /\ lsn_value # None
    /\ outcome' = Some([op |-> "to_string", raised |-> None,
                        value |-> Some(LSN_to_string(lsn_value[1]))])
    /\ UNCHANGED lsn_value
    /\ LsnFrame

\* next_segment(segment_size) on the LSN constructed, which returns a new LSN
NextSegment ==
    /\ lsn_value # None
    /\ \E segment_size \in SegmentSizeInputs :
        outcome' = Some([op |-> "next_segment", raised |-> None,
                         args |-> <<segment_size>>,
                         value |-> Some(LSN_next_segment(lsn_value[1],
                                                         segment_size))])
    /\ UNCHANGED lsn_value
    /\ LsnFrame

LsnNext == NewLSN \/ LsnToString \/ NextSegment

LsnSpec == LsnInit /\ [][LsnNext]_vars

----------------------------------------------------------------------------
(* core/wal_parser.py: WALFile.parse() on a segment file                   *)
(*                                                                         *)
(* The file is written in pages of the block size its long header          *)
(* declares: the first page begins with the long header, page k begins at  *)
(* k * block_size and pages[k] is what was written to it, a magic and the  *)
(* records laid out from offset 24 on, as for the record reader.  The body *)
(* of a record is one XLR_BLOCK_ID_DATA_LONG entry: the tag, the length    *)
(* and the bytes.  "segment" is the file, "reader_position" the position   *)
(* of the BinaryReader made on its bytes, "page_data" the offset of the    *)
(* page whose records are being parsed and "emitted" is self.records.      *)

\* block sizes a long header declares
BlockSizeInputs == {4096, 8192, 16384}

\* records at 0x18, 0x100, 0x200 and 0x300; the fourth one ends at 8192 or
\* at the end of a smaller page, and a fifth one fills a larger page
RecordLens(block_size) ==
    IF block_size > WAL_BLOCK_SIZE
    THEN <<232, 256, 256, 7424, block_size - WAL_BLOCK_SIZE>>
    ELSE <<232, 256, 256, block_size - 768>>

\* the last record of the lengths made one byte longer
OneMore(lens) == [lens EXCEPT ![Len(lens)] = @ + 1]

\* pages of a block size: full of records, the same with another magic,
\* the same with a last record that is one byte too long, and a page with
\* two records and zeros after them
WalPageInputs(block_size) ==
    {GoodPage(RecordLens(block_size), 0),
     [magic |-> 0, lens |-> RecordLens(block_size), bad |-> 0],
     GoodPage(OneMore(RecordLens(block_size)), 0),
     ZeroPaddedPage}

\* the header page and up to MaxPages pages after it; two at most for a
\* block size below 8192, where the record parser would go on into the
\* header of the third
WalFileInputs ==
    UNION {{[block_size |-> block_size, pages |-> pages] :
               pages \in UNION {[1..n -> WalPageInputs(block_size)] :
                   n \in 0..(IF block_size < WAL_BLOCK_SIZE THEN 2
                             ELSE MaxPages)}} :
           block_size \in BlockSizeInputs}

\* len(self.file_data)
file_length(file) == (Len(file.pages) + 1) * file.block_size

\* the total length a record header read at the offset declares: that of
\* the record written there, 0 where zeros are
xl_tot_len_at(file, pos) ==
    LET page == file.pages[pos \div file.block_size]
        here == {i \in DOMAIN page.lens :
                    SlotStart(page, i) = pos % file.block_size}
    IN  IF here # {} THEN page.lens[CHOOSE i \in here : TRUE] ELSE 0

\* the magic a page header read at the offset has: that of the page which
\* begins there, else the first two bytes of what is there
magic_at(file, pos) ==
    IF pos % file.block_size = 0
    THEN file.pages[pos \div file.block_size].magic
    ELSE xl_tot_len_at(file, pos) % 65536

\* WALFile.__init__ on a segment file
WalInit ==
    /\ transactions = NewTM.transactions
    /\ committed_transactions = NewTM.committed_transactions
    /\ aborted_transactions = NewTM.aborted_transactions
    /\ subtransaction_map = NewTM.subtransaction_map
    /\ total_transactions = NewTM.total_transactions
    /\ committed_count = NewTM.committed_count
    /\ aborted_count = NewTM.aborted_count
    /\ ncalls = 0
    /\ call = [op |-> "__init__"]
    /\ segment \in WalFileInputs
    /\ start_lsn_arg = None
    /\ end_lsn_arg = None
    /\ current_position = 0
    /\ pc = "idle"
    /\ page_data = 0
    /\ reader_position = 0
    /\ reader_records = <<>>
    /\ page_records = <<>>
    /\ emitted = <<>>
    /\ file_handle = None
    /\ NoBytes
    /\ NoLsn
    /\ NoWalFile

\* what parse() leaves alone
WalFrame ==
    /\ UNCHANGED <<segment, start_lsn_arg, end_lsn_arg, current_position,
                   reader_records, page_records>>
    /\ UNCHANGED <<file_handle, data, outcome, lsn_str, lsn_value>>
    /\ UNCHANGED trackerVars

\* parse() up to the loop of _parse_wal_pages: _parse_wal_file_header reads
\* the 20 bytes of the long header and seeks to the block size it declares
\* (ValueError beyond the end of the file)
_parse_wal_file_header ==
    /\ pc = "idle"
    /\ LET xlog_blcksz == segment.block_size IN
       IF xlog_blcksz > file_length(segment)
       THEN /\ reader_position' = 20
            /\ pc' = "ValueError"
       ELSE /\ reader_position' = xlog_blcksz
            /\ pc' = "pages"
    /\ UNCHANGED <<page_data, emitted, pages_read>>
    /\ WalFrame

\* one round of the loop of _parse_wal_pages (lines 286-308)
_parse_wal_pages ==
    /\ pc = "pages"
    /\ LET pos == reader_position
           next_page == ((pos \div WAL_BLOCK_SIZE) + 1) * WAL_BLOCK_SIZE
       IN  IF pos >= file_length(segment)
           THEN /\ pc' = "done"
                /\ UNCHANGED <<reader_position, page_data, pages_read>>
           ELSE IF pos % WAL_BLOCK_SIZE # 0
           THEN IF next_page >= file_length(segment)
                THEN /\ pc' = "done"
                     /\ UNCHANGED <<reader_position, page_data, pages_read>>
                ELSE /\ reader_position' = next_page
                     /\ UNCHANGED <<pc, page_data, pages_read>>
           ELSE IF file_length(segment) - pos < SIZEOF_WAL_PAGE_HEADER
           THEN /\ pc' = "done"
                /\ UNCHANGED <<reader_position, page_data, pages_read>>
           ELSE /\ pages_read' = Append(pages_read, pos)
                /\ reader_position' = pos + SIZEOF_WAL_PAGE_HEADER
                /\ IF magic_at(segment, pos) # XLOG_PAGE_MAGIC
                   THEN UNCHANGED <<pc, page_data>>
                   ELSE /\ page_data' = pos
                        /\ pc' = "records"
    /\ UNCHANGED emitted
    /\ WalFrame

\* one round of the loop of _parse_page_records (lines 317-339).  A record
\* whose bytes are all in the file is decoded whole; XLogRecord(reader)
\* raises EOFError in the body of one that runs off the file, after the
\* header, the tag and the length
_parse_page_records ==
    /\ pc = "records"
    /\ LET page_end == page_data + WAL_BLOCK_SIZE
           record_start == reader_position
           total_len == xl_tot_len_at(segment, record_start)
           body_len == total_len - SIZEOF_XLOG_RECORD
       IN  IF \/ ~(reader_position < page_end)
              \/ file_length(segment) - reader_position < SIZEOF_XLOG_RECORD
           THEN /\ pc' = "pages"
                /\ UNCHANGED <<reader_position, emitted>>
           ELSE IF body_len > 0 /\ record_start + total_len > file_length(segment)
           THEN /\ reader_position' = record_start + SIZEOF_XLOG_RECORD + 5
                /\ pc' = "pages"
                /\ UNCHANGED emitted
           ELSE /\ Len(emitted) < MaxPages * MaxRecords
                /\ emitted' = Append(emitted, [xl_tot_len |-> total_len,
                                               start |-> record_start])
                /\ IF next_record(record_start, total_len) >= page_end
                   THEN /\ reader_position' =
                              record_start + SIZEOF_XLOG_RECORD
                              + (IF body_len > 0 THEN body_len ELSE 0)
                        /\ pc' = "pages"
                   ELSE /\ reader_position' = next_record(record_start, total_len)
                        /\ UNCHANGED pc
    /\ UNCHANGED <<page_data, pages_read>>
    /\ WalFrame

WalNext == _parse_wal_file_header \/ _parse_wal_pages \/ _parse_page_records

\* WALFile(path).parse()
WalSpec == WalInit /\ [][WalNext]_vars

----------------------------------------------------------------------------
(* Vocabulary of the properties *)

\* the call just made processed a Transaction-rmgr record whose info byte is info
ProcessedXact(c, info) ==
    /\ c.op = "process_record"
    /\ get_rmgr_name(c.record.xl_rmid) = "Transaction"
    /\ c.record.xl_info = info

\* the call just made processed a record of another resource manager
ProcessedGeneral(c) ==
    /\ c.op = "process_record"
    /\ get_rmgr_name(c.record.xl_rmid) # "Transaction"

TrackedXids(tm) ==
    DOMAIN tm.transactions \cup DOMAIN tm.committed_transactions
        \cup DOMAIN tm.aborted_transactions

TerminalXids(tm) ==
    DOMAIN tm.committed_transactions \cup DOMAIN tm.aborted_transactions

MapsHolding(tm, xid) ==
    {f \in {"transactions", "committed_transactions", "aborted_transactions"} :
        xid \in DOMAIN tm[f]}

\* the tracker is as __init__ leaves it
Fresh(tm) == tm = NewTM

----------------------------------------------------------------------------
(* C1: after any sequence of process_record and add_subtransaction calls,  *)
(* every xid is a key of at most one of transactions,                      *)
(* committed_transactions and aborted_transactions.                        *)

C1_AtMostOneMap ==
    \A xid \in TrackedXids(TM) : Cardinality(MapsHolding(TM, xid)) <= 1

----------------------------------------------------------------------------
(* C2: once an xid is a key of committed_transactions or                   *)
(* aborted_transactions, no later process_record call changes what         *)
(* get_transaction(xid) returns (state, commit_lsn, records all stay).     *)

C2_TerminalImmutable ==
    [][\A xid \in TerminalXids(TM) :
           call'.op = "process_record" =>
               get_transaction(TM', xid) = get_transaction(TM, xid)]_vars

----------------------------------------------------------------------------
(* C3: processing a Transaction-rmgr record whose info is 0x10 (ABORT) for *)
(* an xid in active moves the xid out of active into aborted_transactions  *)
(* with state aborted and adds one to aborted_count; in particular, after  *)
(* two Heap records of distinct xids x and y on a fresh tracker, the ABORT *)
(* record of x leaves aborted = {x} and active = {y}.                      *)

\* the tracker after (Heap, x), (Heap, y) and nothing else
AfterTwoHeapRecords(tm, x, y) ==
    /\ x # y
    /\ DOMAIN tm.transactions = {x, y}
    /\ TerminalXids(tm) = {}
    /\ DOMAIN tm.subtransaction_map = {}
    /\ tm.total_transactions = 2
    /\ \A z \in {x, y} :
           \A i \in DOMAIN tm.transactions[z].records :
               get_rmgr_name(tm.transactions[z].records[i].xl_rmid) = "Heap"

C3_AbortMovesToAborted ==
    [][ProcessedXact(call', XLOG_XACT_ABORT)
       /\ call'.record.xl_xid \in DOMAIN transactions
       => LET xid == call'.record.xl_xid IN
          /\ xid \notin DOMAIN transactions'
          /\ xid \in DOMAIN aborted_transactions'
          /\ aborted_transactions'[xid].state = ABORTED
          /\ aborted_count' = aborted_count + 1
          /\ \A y \in DOMAIN transactions :
                 AfterTwoHeapRecords(TM, xid, y)
                 => /\ DOMAIN aborted_transactions' = {xid}
                    /\ DOMAIN transactions' = {y}]_vars

----------------------------------------------------------------------------
(* C4: processing a single Transaction-rmgr COMMIT record (info 0x00,      *)
(* empty body) bearing a previously unseen xid on a fresh tracker ends     *)
(* with committed_count = 1, get_transaction(xid).state = committed and    *)
(* commit_lsn = the text form of the record's prev_lsn.                    *)

----------------------------------------------------------------------------
(* C5: processing a Transaction-rmgr COMMIT record (info 0x00) for an xid  *)
(* in active removes the xid from active, stores its info in               *)
(* committed_transactions with state committed and commit_lsn = the text   *)
(* form of the record's prev_lsn (the record appended to its records), and *)
(* adds exactly one to committed_count.                                    *)

C5_CommitMovesToCommitted ==
    [][ProcessedXact(call', XLOG_XACT_COMMIT)
       /\ call'.record.xl_xid \in DOMAIN transactions
       => LET xid == call'.record.xl_xid
              before == transactions[xid]
          IN  /\ xid \notin DOMAIN transactions'
              /\ xid \in DOMAIN committed_transactions'
              /\ committed_transactions'[xid] =
                     [before EXCEPT
                         !.state = COMMITTED,
                         !.commit_lsn = Some(to_string(call'.record.xl_prev)),
                         !.records = Append(@, call'.record)]
              /\ committed_count' = committed_count + 1]_vars

\* a COMMIT record has just moved its xid, active since an earlier record
\* with another prev_lsn, to committed_transactions
C5_Witness ==
    /\ ProcessedXact(call, XLOG_XACT_COMMIT)
    /\ LET xid == call.record.xl_xid IN
       /\ xid \notin DOMAIN transactions
       /\ xid \in DOMAIN committed_transactions
       /\ LET info == committed_transactions[xid] IN
          /\ info.state = COMMITTED
          /\ info.records[Len(info.records)] = call.record
          /\ info.commit_lsn = Some(to_string(call.record.xl_prev))
          /\ info.start_lsn # info.commit_lsn
    /\ committed_count >= 1

----------------------------------------------------------------------------
(* C6: processing a Transaction-rmgr record whose info is 0x20 (PREPARE)   *)
(* for an xid in active (and in no other map) sets its state to prepared   *)
(* and leaves it in active; it is in neither committed_transactions nor    *)
(* aborted_transactions afterwards and no counter changes.                 *)

C6_PrepareKeepsActive ==
    [][ProcessedXact(call', XLOG_XACT_PREPARE)
       /\ MapsHolding(TM, call'.record.xl_xid) = {"transactions"}
       => LET xid == call'.record.xl_xid IN
          /\ xid \in DOMAIN transactions'
          /\ transactions'[xid].state = PREPARED
          /\ xid \notin TerminalXids(TM')
          /\ total_transactions' = total_transactions
          /\ committed_count' = committed_count
          /\ aborted_count' = aborted_count]_vars

----------------------------------------------------------------------------
(* C7: for a prepared xid (its info in active has state prepared, or the   *)
(* PREPARE record of the active xid is the record processed last), a       *)
(* Transaction-rmgr record with info 0x30 (COMMIT_PREPARED) moves it to    *)
(* committed and one with info 0x40 (ABORT_PREPARED) moves it to aborted,  *)
(* as the commit/abort handlers do; for an xid not in active these records *)
(* change nothing.                                                         *)

\* the last call processed the PREPARE record of xid and the tracker took it
JustPrepared(tm, c, xid) ==
    /\ ProcessedXact(c, XLOG_XACT_PREPARE)
    /\ c.record.xl_xid = xid
    /\ get_transaction(tm, xid) # None
    /\ LET records == get_transaction_records(tm, xid) IN
       /\ Len(records) > 0
       /\ records[Len(records)] = c.record

IsPrepared(tm, c, xid) ==
    \/ /\ xid \in DOMAIN tm.transactions
       /\ tm.transactions[xid].state = PREPARED
    \/ JustPrepared(tm, c, xid)

C7_PreparedResolves ==
    [][/\ ProcessedXact(call', XLOG_XACT_COMMIT_PREPARED)
          /\ IsPrepared(TM, call, call'.record.xl_xid)
          => LET xid == call'.record.xl_xid IN
             /\ xid \notin DOMAIN transactions'
             /\ xid \in DOMAIN committed_transactions'
             /\ committed_transactions'[xid].state = COMMITTED
       /\ ProcessedXact(call', XLOG_XACT_ABORT_PREPARED)
          /\ IsPrepared(TM, call, call'.record.xl_xid)
          => LET xid == call'.record.xl_xid IN
             /\ xid \notin DOMAIN transactions'
             /\ xid \in DOMAIN aborted_transactions'
             /\ aborted_transactions'[xid].state = ABORTED
       /\ (\/ ProcessedXact(call', XLOG_XACT_COMMIT_PREPARED)
           \/ ProcessedXact(call', XLOG_XACT_ABORT_PREPARED))
          /\ call'.record.xl_xid \notin DOMAIN transactions
          /\ ~IsPrepared(TM, call, call'.record.xl_xid)
          => TM' = TM]_vars

----------------------------------------------------------------------------
(* C8: a Transaction-rmgr ASSIGNMENT record (info 0x50) that links subxid  *)
(* s to parent p associates s with p, so that the COMMIT record of p that  *)
(* follows it leaves both p and s in committed_transactions with identical *)
(* commit_lsn (scenario: subxid 7, parent 3).                              *)

C8_AssignmentThenCommit ==
    [][\A p \in NonzeroXidInputs, s \in NonzeroXidInputs :
           /\ ProcessedXact(call, XLOG_XACT_ASSIGNMENT)
           /\ call.record.main_data = <<p, s>>
           /\ ProcessedXact(call', XLOG_XACT_COMMIT)
           /\ call'.record.xl_xid = p
           => /\ {p, s} \subseteq DOMAIN committed_transactions'
              /\ committed_transactions'[p].commit_lsn =
                     committed_transactions'[s].commit_lsn]_vars

----------------------------------------------------------------------------
(* C9: when the Transaction-rmgr record of a parent xid p in active takes  *)
(* p to a terminal state (commit or abort), every subxid s of p's          *)
(* subtransactions set that is in active, also one first created as a      *)
(* standalone active transaction, is moved to the same terminal map with   *)
(* the same state and the same commit_lsn as p, and no subxid of p remains *)
(* in active.                                                              *)

\* the terminal maps of tracker t in which p's info of tracker tm, finished
\* by record, is stored
Landed(tm, t, p, record) ==
    {f \in {"committed_transactions", "aborted_transactions"} :
        /\ p \in DOMAIN t[f]
        /\ t[f][p] =
               [tm.transactions[p] EXCEPT
                   !.state = IF f = "committed_transactions"
                             THEN COMMITTED ELSE ABORTED,
                   !.commit_lsn = Some(to_string(record.xl_prev)),
                   !.records = Append(@, record)]}

\* t is the tracker after record took p, active in tracker tm, to its
\* terminal state
SubtransactionsFollow(tm, t, p, record) ==
    LET subs == tm.transactions[p].subtransactions IN
    /\ p \notin DOMAIN t.transactions
    /\ Landed(tm, t, p, record) # {}
    /\ \A s \in subs : s \notin DOMAIN t.transactions
    /\ \A f \in Landed(tm, t, p, record) :
           \A s \in subs \cap DOMAIN tm.transactions :
               /\ s \in DOMAIN t[f]
               /\ t[f][s] = [tm.transactions[s] EXCEPT
                                !.state = t[f][p].state,
                                !.commit_lsn = t[f][p].commit_lsn]

\* every step in which the Transaction record of p takes p out of active,
\* and both handlers applied to every active xid of every reachable state
\* (no record reaches _abort_transaction through the dispatcher)
C9_SubtransactionsFollowParent ==
    /\ [][\A p \in DOMAIN transactions :
              /\ call'.op = "process_record"
              /\ get_rmgr_name(call'.record.xl_rmid) = "Transaction"
              /\ call'.record.xl_xid = p
              /\ p \notin DOMAIN transactions'
              => SubtransactionsFollow(TM, TM', p, call'.record)]_vars
    /\ [](\A p \in DOMAIN transactions, prev \in PrevInputs :
              /\ LET record == XLogRecord(p, prev, XLOG_XACT_COMMIT,
                                          RM_XACT_ID, <<>>)
                 IN  SubtransactionsFollow(
                         TM, _commit_transaction(TM, p, record), p, record)
              /\ LET record == XLogRecord(p, prev, XLOG_XACT_ABORT,
                                          RM_XACT_ID, <<>>)
                 IN  SubtransactionsFollow(
                         TM, _abort_transaction(TM, p, record), p, record))

\* the COMMIT record of parent p has just been processed, and a subxid s
\* that was created by a record of its own (no parent_xid, a start_lsn)
\* sits in committed_transactions with p's commit_lsn
C9_Witness ==
    /\ ProcessedXact(call, XLOG_XACT_COMMIT)
    /\ LET p == call.record.xl_xid IN
       /\ p \in DOMAIN committed_transactions
       /\ p \notin DOMAIN transactions
       /\ \E s \in committed_transactions[p].subtransactions :
              /\ s \in DOMAIN committed_transactions
              /\ s \notin DOMAIN transactions
              /\ committed_transactions[s].parent_xid = None
              /\ committed_transactions[s].start_lsn # None
              /\ committed_transactions[s].state = COMMITTED
              /\ committed_transactions[s].commit_lsn =
                     committed_transactions[p].commit_lsn
              /\ committed_transactions[p].commit_lsn =
                     Some(to_string(call.record.xl_prev))

----------------------------------------------------------------------------
(* C10: in every reachable tracker state, for every tracked transaction c  *)
(* whose parent_xid is p, and for every link s -> p of subtransaction_map, *)
(* the transaction info of p contains the child in its subtransactions     *)
(* set.                                                                    *)

ParentKnowsChild(tm, p, c) ==
    /\ get_transaction(tm, p) # None
    /\ c \in get_transaction(tm, p)[1].subtransactions

C10_ParentContainsChildren ==
    /\ \A f \in {"transactions", "committed_transactions", "aborted_transactions"} :
           \A c \in DOMAIN TM[f] :
               TM[f][c].parent_xid # None
               => ParentKnowsChild(TM, TM[f][c].parent_xid[1], c)
    /\ \A s \in DOMAIN subtransaction_map :
           ParentKnowsChild(TM, subtransaction_map[s], s)

----------------------------------------------------------------------------
(* C11: for an xid x # 0 never seen before, processing k >= 1              *)
(* non-Transaction records bearing x creates active[x] with start_lsn =    *)
(* the text form of the first record's prev_lsn, and                       *)
(* get_transaction_records(x) is exactly those k records, each once, in    *)
(* submission order.                                                       *)

\* every record of the transaction info comes from another resource manager
OnlyGeneralRecords(info) ==
    \A i \in DOMAIN info.records :
        get_rmgr_name(info.records[i].xl_rmid) # "Transaction"

\* the first record (xid unseen) creates the info holding that record once;
\* each further one (xid active through such records only) is appended once
C11_GeneralRecordsOnceInOrder ==
    [][ProcessedGeneral(call') /\ call'.record.xl_xid # 0
       => LET x == call'.record.xl_xid IN
          /\ x \notin TrackedXids(TM) /\ x \notin DOMAIN subtransaction_map
             => /\ x \in DOMAIN transactions'
                /\ transactions'[x].start_lsn =
                       Some(to_string(call'.record.xl_prev))
                /\ get_transaction_records(TM', x) = <<call'.record>>
          /\ MapsHolding(TM, x) = {"transactions"}
             /\ OnlyGeneralRecords(transactions[x])
             => get_transaction_records(TM', x) =
                    Append(get_transaction_records(TM, x), call'.record)]_vars

----------------------------------------------------------------------------
(* C12: after any sequence of process_record calls, xid 0 is not a key of  *)
(* active, committed_transactions or aborted_transactions: a record        *)
(* bearing xid 0 never creates or modifies a transaction info and never    *)
(* changes a counter.                                                      *)

C12_XidZeroNeverTracked ==
    [][call'.op = "process_record"
       => /\ 0 \notin TrackedXids(TM')
          /\ call'.record.xl_xid = 0 => TM' = TM]_vars

----------------------------------------------------------------------------
(* C13: from any reachable tracker state and for any record r, processing  *)
(* r twice in a row leaves total_transactions, committed_count and         *)
(* aborted_count after the second process_record(r) equal to their values  *)
(* after the first.                                                        *)

Counters(tm) ==
    <<tm.total_transactions, tm.committed_count, tm.aborted_count>>

\* the call just made fed the record of the call before it once more
FedAgain(c) == c.op = "process_record" /\ "again" \in DOMAIN c

C13_SecondFeedKeepsCounters ==
    [][FedAgain(call') /\ call'.record = call.record
       => Counters(TM') = Counters(TM)]_vars

\* a record whose first processing changed a counter (it created or
\* committed its xid) has been fed a second time
C13_Witness ==
    /\ FedAgain(call)
    /\ LET xid == call.record.xl_xid
           records == get_transaction_records(TM, xid)
       IN  /\ Len(records) > 0
           /\ records[Len(records)] = call.record
           /\ \/ /\ ProcessedXact(call, XLOG_XACT_COMMIT)
                 /\ xid \in DOMAIN committed_transactions
                 /\ committed_count = 1
              \/ /\ ProcessedGeneral(call)
                 /\ total_transactions = 1
                 /\ Len(records) = 3

----------------------------------------------------------------------------
(* C14: in every reachable tracker state no xid is a key of both           *)
(* committed_transactions and aborted_transactions.                        *)

C14_CommittedAbortedDisjoint ==
    DOMAIN committed_transactions \cap DOMAIN aborted_transactions = {}

\* the ABORT record of an xid that was committed before and tracked anew
\* since has just been processed: the xid has been committed twice
C14_Witness ==
    /\ ProcessedXact(call, XLOG_XACT_ABORT)
    /\ LET xid == call.record.xl_xid IN
       /\ DOMAIN committed_transactions = {xid}
       /\ committed_count = 2
       /\ xid \notin DOMAIN aborted_transactions
       /\ LET records == committed_transactions[xid].records IN
          records[Len(records)] = call.record

----------------------------------------------------------------------------
(* C15: process_record never raises: for every reachable tracker state and *)
(* every record (any rmid, any info byte, any xid, including               *)
(* commit/abort/prepare for xids that are unknown or already terminal),    *)
(* the call returns normally and an unexpected record is ignored.          *)

\* a resource manager id RMGR_IDS does not name, and an info byte with all
\* bits set
UnnamedRmid == 255
FullInfo == 255

\* records the calls of Spec never bear: of an unnamed manager, and with
\* the full info byte
OddRecordInputs ==
    {XLogRecord(xid, prev, FullInfo, RM_XACT_ID, <<>>) :
        xid \in XidInputs, prev \in PrevInputs}
    \cup
    {XLogRecord(xid, prev, XLOG_XACT_COMMIT, UnnamedRmid, <<>>) :
        xid \in XidInputs, prev \in PrevInputs}

\* a commit, abort or prepare record (one of the opcode bytes) of an xid
\* that is not active
Unexpected(tm, record) ==
    /\ get_rmgr_name(record.xl_rmid) = "Transaction"
    /\ record.xl_info \in {XLOG_XACT_COMMIT, XLOG_XACT_ABORT, XLOG_XACT_PREPARE,
                            XLOG_XACT_COMMIT_PREPARED, XLOG_XACT_ABORT_PREPARED}
    /\ record.xl_xid \notin DOMAIN tm.transactions

\* every call made returns normally and ignores an unexpected record, and
\* in every reachable state so would the call with any of the odd records
C15_ProcessRecordNeverRaises ==
    /\ [][call'.op = "process_record"
          => /\ ~process_record_raises(TM, call'.record)
             /\ Unexpected(TM, call'.record) => TM' = TM]_vars
    /\ [](\A record \in OddRecordInputs :
              /\ ~process_record_raises(TM, record)
              /\ Unexpected(TM, record) => process_record(TM, record) = TM)

\* the ABORT record of an xid that is committed and not active has just
\* been processed: the call returned and no info holds the record
C15_Witness ==
    /\ ProcessedXact(call, XLOG_XACT_ABORT)
    /\ LET xid == call.record.xl_xid IN
       /\ xid \in DOMAIN committed_transactions
       /\ xid \notin DOMAIN transactions
       /\ \A i \in DOMAIN committed_transactions[xid].records :
              committed_transactions[xid].records[i] # call.record
    /\ ~process_record_raises(TM, call.record)

----------------------------------------------------------------------------
(* C16: the record sequence is finite: for every segment file (any size,   *)
(* any byte content), iterating XLogReader.read_records() to exhaustion    *)
(* terminates after finitely many steps.                                   *)

C16_ReadingTerminates == <>(pc = "done")

----------------------------------------------------------------------------
(* Vocabulary of the reader's properties *)

\* the page was written with the magic of a WAL page, 0xD099
HasWalMagic(page) == page.magic = XLOG_PAGE_MAGIC

\* file offset of the header of the i-th record written to page k
RecordStart(seg, k, i) == PageBase(k) + SlotStart(seg.pages[k], i)

\* the i-th record written to the page lies within the page
LiesWithin(page, i) == SlotStart(page, i) + page.lens[i] <= WAL_BLOCK_SIZE

\* the i-th record written to the page and all those before it lie within
\* the page and are well formed
Deliverable(page, i) ==
    \A j \in 1..i : LiesWithin(page, j) /\ j # page.bad

\* the file offsets of the records yielded so far
EmittedStarts == {emitted[n].start : n \in DOMAIN emitted}

\* read_records() was called without a range and is exhausted
ReadWhole == pc = "done" /\ start_lsn_arg = None /\ end_lsn_arg = None

----------------------------------------------------------------------------
(* C17: a record whose bytes extend past the end of its page is emitted    *)
(* with a body equal to the concatenation of the payload bytes of the      *)
(* successive pages, each intervening 24-byte short page header skipped    *)
(* (scenario: a record with total_len = 200 starting 16 bytes before a     *)
(* page boundary).                                                         *)

\* the record i of page k starts in page k after deliverable records and
\* ends in page k + 1
CrossesPages(seg, k, i) ==
    /\ k + 1 \in DOMAIN seg.pages
    /\ HasWalMagic(seg.pages[k])
    /\ HasWalMagic(seg.pages[k + 1])
    /\ \A j \in 1..(i - 1) : Deliverable(seg.pages[k], j)
    /\ SlotStart(seg.pages[k], i) < WAL_BLOCK_SIZE
    /\ ~LiesWithin(seg.pages[k], i)
    /\ seg.pages[k].lens[i] <= WAL_BLOCK_SIZE

\* once the whole file is read, every such record has been yielded, whole
C17_CrossPageRecordEmitted ==
    ReadWhole
    => \A k \in DOMAIN segment.pages :
           \A i \in DOMAIN segment.pages[k].lens :
               CrossesPages(segment, k, i)
               => \E n \in DOMAIN emitted :
                      /\ emitted[n].start = RecordStart(segment, k, i)
                      /\ emitted[n].xl_tot_len = segment.pages[k].lens[i]

----------------------------------------------------------------------------
(* C18: a page whose magic is not 0xD099 contributes no records and        *)
(* decoding continues at the next page boundary: every record of the valid *)
(* pages before and after it in the same segment is still emitted.         *)

\* reading a page of another magic returns no records and leaves the reader
\* at the next page boundary, in the loop; and once the whole file is read,
\* no yielded record comes from such a page and every deliverable record
\* of every other page has been yielded
C18_BadMagicPageSkipped ==
    /\ [][/\ pc = "page"
           /\ current_position + WAL_BLOCK_SIZE <= file_size(segment)
           /\ ~HasWalMagic(segment.pages[(current_position \div WAL_BLOCK_SIZE) + 1])
           => /\ page_records' = <<>>
              /\ emitted' = emitted
              /\ current_position' = current_position + WAL_BLOCK_SIZE
              /\ current_position' % WAL_BLOCK_SIZE = 0
              /\ pc' = "for"]_vars
    /\ [](ReadWhole
          => \A k \in DOMAIN segment.pages :
                 IF HasWalMagic(segment.pages[k])
                 THEN \A i \in DOMAIN segment.pages[k].lens :
                          Deliverable(segment.pages[k], i)
                          => RecordStart(segment, k, i) \in EmittedStarts
                 ELSE \A n \in DOMAIN emitted :
                          (emitted[n].start \div WAL_BLOCK_SIZE) + 1 # k)

\* the whole file is read; its second page has another magic, and the
\* records of the first and of the third page have been yielded
C18_Witness ==
    /\ ReadWhole
    /\ Len(segment.pages) = 3
    /\ ~HasWalMagic(segment.pages[2])
    /\ segment.pages[2].lens # <<>>
    /\ \A k \in {1, 3} :
           /\ HasWalMagic(segment.pages[k])
           /\ \E i \in DOMAIN segment.pages[k].lens :
                  /\ Deliverable(segment.pages[k], i)
                  /\ RecordStart(segment, k, i) \in EmittedStarts

----------------------------------------------------------------------------
(* C19: for any two records emitted by one read_records iteration over a   *)
(* segment, the one emitted first has the strictly smaller start offset in *)
(* the segment (records are emitted in strictly increasing byte order).    *)

C19_EmittedInByteOrder ==
    \A m \in DOMAIN emitted, n \in DOMAIN emitted :
        m < n => emitted[m].start < emitted[n].start

\* records of two pages have been yielded
C19_Witness ==
    /\ Len(emitted) >= 5
    /\ emitted[1].start < WAL_BLOCK_SIZE
    /\ emitted[Len(emitted)].start > WAL_BLOCK_SIZE
    /\ pc = "done"

----------------------------------------------------------------------------
(* C20: when start_lsn is set, read_records emits no record whose start    *)
(* LSN is strictly less than start_lsn; with records at LSNs 0/100, 0/200, *)
(* 0/300, read_records(start=0/150, end=0/250) yields exactly the 0/200    *)
(* record.                                                                 *)

\* the scenario's file: one page with records at 0/100, 0/200 and 0/300
\* (and the record at 0/18 that takes the reader to 0/100)
ScenarioSegment == [pages |-> <<FullPage>>, tail |-> 0]

C20_StartLsnFilters ==
    /\ start_lsn_arg # None
       => \A n \in DOMAIN emitted : emitted[n].start >= start_lsn_arg[1]
    /\ /\ pc = "done"
       /\ segment = ScenarioSegment
       /\ start_lsn_arg = Some(336)
       /\ end_lsn_arg = Some(592)
       => EmittedStarts = {512}

----------------------------------------------------------------------------
(* C21: when end_lsn is set, read_records halts at the first record whose  *)
(* start LSN exceeds end_lsn: that record and every record after it are    *)
(* not emitted, and every record before it is.                             *)

\* no yielded record starts after end_lsn, and once the iteration is
\* exhausted every deliverable record that starts at or before end_lsn
\* has been yielded
C21_EndLsnHalts ==
    end_lsn_arg # None
    => /\ \A n \in DOMAIN emitted : emitted[n].start <= end_lsn_arg[1]
       /\ pc = "done" /\ start_lsn_arg = None
          => \A k \in DOMAIN segment.pages :
                 \A i \in DOMAIN segment.pages[k].lens :
                     /\ HasWalMagic(segment.pages[k])
                     /\ Deliverable(segment.pages[k], i)
                     /\ RecordStart(segment, k, i) <= end_lsn_arg[1]
                     => RecordStart(segment, k, i) \in EmittedStarts

----------------------------------------------------------------------------
(* Decoding one record from a BinaryReader *)

\* the call just made on the reader
LastCall == outcome[1]

\* the call just made was op and it returned
Succeeded(op) ==
    outcome # None /\ LastCall.op = op /\ LastCall.raised = None

\* the call just made was op and it raised exc
Failed(op, exc) ==
    outcome # None /\ LastCall.op = op /\ LastCall.raised = Some(exc)

\* the number of bytes the call just made moved the reader by
Advance == reader_position - LastCall.position

\* C22: for every record XLogRecord(reader) decodes, the bytes consumed for
\* it, from the first byte of its header to where the reader is left, are
\* as many as its xl_tot_len.
C22_ConsumedIsTotalLength ==
    Succeeded("XLogRecord") => Advance = LastCall.value[1].xl_tot_len

----------------------------------------------------------------------------
(* The end of the segment *)

\* the generator read_records raised an exception
Raising == pc \in {"RuntimeError", "AttributeError"}

\* the iteration is over, exhausted or with an error
Finished == pc = "done" \/ Raising

\* the bytes of the segment from the header of the i-th record of page k on
RemainingFrom(seg, k, i) == file_size(seg) - RecordStart(seg, k, i)

\* the reader comes to the i-th record of page k: the page has the WAL
\* magic, the records before it are deliverable and its body is well formed
ComesTo(seg, k, i) ==
    /\ HasWalMagic(seg.pages[k])
    /\ \A j \in 1..(i - 1) : Deliverable(seg.pages[k], j)
    /\ i # seg.pages[k].bad

\* C23: a record whose xl_tot_len is the number of bytes that remain in the
\* segment from its start is decoded and emitted; a record that is one byte
\* longer is not emitted and the iteration ends with an error outcome for
\* the truncated record.
C23_ExactFitDecodedLongerTruncated ==
    \A k \in DOMAIN segment.pages :
        \A i \in DOMAIN segment.pages[k].lens :
            /\ /\ ReadWhole
               /\ ComesTo(segment, k, i)
               /\ segment.pages[k].lens[i] = RemainingFrom(segment, k, i)
               => RecordStart(segment, k, i) \in EmittedStarts
            /\ segment.pages[k].lens[i] = RemainingFrom(segment, k, i) + 1
               => /\ RecordStart(segment, k, i) \notin EmittedStarts
                  /\ /\ Finished
                     /\ start_lsn_arg = None
                     /\ end_lsn_arg = None
                     /\ ComesTo(segment, k, i)
                     => Raising

----------------------------------------------------------------------------
(* C24: a segment in which every page is filled with 0x00, its size a      *)
(* multiple of the page size, yields zero records and the iteration        *)
(* terminates; a tracker fed that stream has all statistics equal to zero. *)

\* the page is filled with 0x00: no magic, no record
ZeroFilled(page) == page.magic = 0 /\ page.lens = <<>>

\* the segment is whole pages, at least one, all filled with 0x00
ZeroSegment ==
    /\ segment.pages # <<>>
    /\ segment.tail = 0
    /\ \A k \in DOMAIN segment.pages : ZeroFilled(segment.pages[k])

\* XLogReader.__init__ on a segment file whose pages are filled with 0x00 or
\* are full of records, within "with"
ZeroReaderInit ==
    /\ ReaderInit
    /\ \A k \in DOMAIN segment.pages : segment.pages[k] \in {ZeroPage, FullPage}

\* the consumer iterates such a segment to exhaustion
ZeroReaderSpec ==
    ZeroReaderInit /\ [][ReaderNext]_vars /\ WF_vars(ReaderNext)

\* the records of the pages are written with xid 3 by the Heap manager
RecordOfPage(decoded) == XLogRecord(3, decoded.xl_prev, 0, RM_HEAP_ID, <<>>)

\* the tracker after process_record on each record of the stream in turn
RECURSIVE FedWith(_, _)
FedWith(tm, stream) ==
    IF stream = <<>> THEN tm
    ELSE FedWith(process_record(tm, RecordOfPage(Head(stream))), Tail(stream))

AllZeroStatistics ==
    [total_transactions |-> 0, active_count |-> 0, committed_count |-> 0,
     aborted_count |-> 0, committed_transactions |-> 0,
     aborted_transactions |-> 0]

\* reading such a segment comes to its end, and at no point has a record
\* been yielded or has the tracker fed with what was yielded counted anything
C24_ZeroSegmentYieldsNothing ==
    /\ [](ZeroSegment => <>(pc = "done"))
    /\ [](ZeroSegment
          => /\ emitted = <<>>
             /\ get_statistics(FedWith(NewTM, emitted)) = AllZeroStatistics)

\* a segment of several zero pages has been read to its end
C24_Witness ==
    /\ ZeroSegment
    /\ Len(segment.pages) > 1
    /\ start_lsn_arg = None
    /\ pc = "done"
    /\ current_position = file_size(segment)

----------------------------------------------------------------------------
(* C25: the XLogReader's file handle is held only inside its scope: it is  *)
(* opened by __enter__, and after __exit__ (reached on normal completion,  *)
(* early termination of iteration, or error) file_handle is None;          *)
(* read_records invoked when no handle is open fails with an error and     *)
(* yields no record.                                                       *)

\* a handle is held only since the last __enter__, after the last __exit__
\* there is none, whatever the point the iteration had reached; and
\* read_records started with no handle raises and has yielded nothing
C25_HandleHeldInScopeOnly ==
    /\ [](file_handle # None => call.op = "__enter__")
    /\ [](call.op = "__exit__" => file_handle = None)
    /\ [][pc = "idle" /\ pc' # "idle" /\ file_handle = None
           => pc' = "RuntimeError" /\ emitted' = <<>>]_vars
    /\ [](pc = "RuntimeError" => emitted = <<>>)

\* the scope was left in the middle of the iteration, records of the page
\* still to be yielded, and no handle is left
C25_Witness ==
    /\ call.op = "__exit__"
    /\ file_handle = None
    /\ pc = "for"
    /\ emitted # <<>>
    /\ page_records # <<>>

----------------------------------------------------------------------------
(* The contracts of BinaryReader *)

\* the reads of a fixed size and the number of bytes each one is of
SizedReads ==
    [read_uint8 |-> 1, read_uint16 |-> 2, read_uint32 |-> 4, read_uint64 |-> 8,
     read_int32 |-> 4, read_int64 |-> 8]

\* the reads and skips that are given the number of bytes
CountedCalls == {"read_bytes", "read_string", "skip_bytes"}

\* the number of bytes the call just made asked for
Requested ==
    IF LastCall.op \in DOMAIN SizedReads THEN SizedReads[LastCall.op]
    ELSE LastCall.args[1]

\* the bytes that remained when the call just made was made
RemainedBefore == Len(data) - LastCall.position

\* data[old_position : old_position + n], for n bytes that were there
BytesFrom(old_position, n) ==
    [j \in 1..n |-> data[old_position + j]]

\* C26: every successful read advances the position by exactly the number
\* of bytes consumed: read_bytes(n) by n, read_uint8/16/32/64 by 1/2/4/8,
\* read_int32/64 by 4/8, read_string(n) by n; and what is returned is made
\* of data[old_position : old_position + n]: those bytes themselves for
\* read_bytes, their little-endian number for the integers, their text
\* without the null bytes at its end for read_string.
C26_ReadAdvancesByBytesConsumed ==
    /\ outcome # None
    /\ LastCall.op \in DOMAIN SizedReads \cup {"read_bytes", "read_string"}
    /\ LastCall.raised = None
    => /\ Advance = Requested
       /\ LET consumed == BytesFrom(LastCall.position, Requested) IN
          LastCall.value[1] =
              CASE LastCall.op = "read_bytes" -> consumed
                [] LastCall.op = "read_string" -> decode(rstrip(consumed))
                [] LastCall.op \in {"read_int32", "read_int64"}
                       -> unpack_signed(consumed)
                [] OTHER -> unpack_unsigned(consumed)

\* a 64-bit number was read from the middle of the data
C26_Witness ==
    /\ Succeeded("read_uint64")
    /\ LastCall.position > 0
    /\ reader_position = LastCall.position + 8
    /\ LastCall.value[1] # <<>>

\* C27: a read or a skip_bytes that asks for more bytes than remain fails
\* with the end-of-file error, EOFError, and leaves the position where it
\* was.
C27_ShortReadFailsInPlace ==
    /\ outcome # None
    /\ LastCall.op \in DOMAIN SizedReads \cup CountedCalls
    /\ Requested > RemainedBefore
    => /\ LastCall.raised = Some("EOFError")
       /\ LastCall.value = None
       /\ reader_position = LastCall.position

\* four bytes were asked for where fewer, and not none, remained
C27_Witness ==
    /\ Failed("read_uint32", "EOFError")
    /\ LastCall.position > 0
    /\ RemainedBefore \in 1..3
    /\ reader_position = LastCall.position

\* C28: seek(p) succeeds and sets the position to p for every p from 0 to
\* the length of the data, the length included; for p < 0 and for p above
\* the length it fails with the out-of-range error, ValueError, and leaves
\* the position where it was.
C28_SeekWithinDataOnly ==
    outcome # None /\ LastCall.op = "seek"
    => IF 0 <= LastCall.args[1] /\ LastCall.args[1] <= Len(data)
       THEN LastCall.raised = None /\ reader_position = LastCall.args[1]
       ELSE /\ LastCall.raised = Some("ValueError")
            /\ reader_position = LastCall.position

\* the reader was moved to the end of the data from elsewhere
C28_Witness ==
    /\ Succeeded("seek")
    /\ LastCall.args[1] = Len(data)
    /\ LastCall.position < Len(data)
    /\ reader_position = Len(data)

\* C29: peek_bytes(n) never changes the position and never fails: for
\* n >= 0 it returns the min(n, remaining) bytes that start at the current
\* position, none at the end of the data.
C29_PeekLeavesPosition ==
    outcome # None /\ LastCall.op = "peek_bytes"
    => /\ LastCall.raised = None
       /\ reader_position = LastCall.position
       /\ LET n == LastCall.args[1]
              available == IF n < RemainedBefore THEN n ELSE RemainedBefore
          IN  LastCall.value[1] = BytesFrom(LastCall.position, available)

\* more bytes were asked for than remained, and those that remained came
C29_Witness ==
    /\ Succeeded("peek_bytes")
    /\ LastCall.position > 0
    /\ RemainedBefore \in 1..(LastCall.args[1] - 1)
    /\ Len(LastCall.value[1]) = RemainedBefore
    /\ reader_position = LastCall.position

----------------------------------------------------------------------------
(* C30: LSN text round-trip: for every string s of the form HIGH/LOW made  *)
(* of uppercase hex digits with no leading zeros on either half (any       *)
(* number of digits), LSN(s).to_string() equals s; in particular "0/0" and *)
(* "FFFFFFFF/FFFFFFFF" round-trip.                                         *)

\* uppercase hexadecimal digits, at least one, with no leading zero
HexNumeral(text) ==
    /\ text # <<>>
    /\ \A j \in DOMAIN text : \E n \in 1..16 : HexDigits[n] = text[j]
    /\ Len(text) > 1 => text[1] # "0"

\* the text is HIGH/LOW
HighSlashLow(text) ==
    \E slash \in DOMAIN text :
        /\ text[slash] = "/"
        /\ HexNumeral(SubSeq(text, 1, slash - 1))
        /\ HexNumeral(SubSeq(text, slash + 1, Len(text)))

\* to_string() of the LSN constructed from such a text is the text
C30_TextRoundTrip ==
    /\ HighSlashLow(lsn_str)
    /\ outcome # None
    /\ LastCall.op = "to_string"
    => LastCall.value = Some(lsn_str)

----------------------------------------------------------------------------
(* C31: for every 64-bit LSN x and segment size S, x.next_segment(S) is    *)
(* the LSN of the first byte after the segment containing x: it is         *)
(* strictly greater than x, exceeds x by at most S, and is the smallest    *)
(* such LSN whose position is a multiple of S, including when x lies in    *)
(* the last segment of its file_id.                                        *)

\* a < b, for two numbers given by their digits
BigLess(a, b) ==
    \/ Len(a) < Len(b)
    \/ /\ Len(a) = Len(b)
       /\ \E j \in DOMAIN a :
            /\ a[j] < b[j]
            /\ \A i \in (j + 1)..Len(a) : a[i] = b[i]

\* the value fits in 64 bits
Is64Bit(value) == Len(value) <= 16

\* the position of the first byte after the segment that contains x: the
\* only multiple of the size above x and at most the size away from it
FirstByteAfterSegment(x, size) ==
    LET below == IF Len(x) < Len(size) THEN <<>> ELSE SubSeq(x, Len(size), Len(x))
        zeros == [j \in 1..(Len(size) - 1) |-> 0]
    IN  zeros \o BigIncrement(below)

\* next_segment of a 64-bit LSN returns the first byte after its segment,
\* which lies above the LSN
C31_NextSegmentIsFirstByteAfter ==
    /\ outcome # None
    /\ LastCall.op = "next_segment"
    /\ Is64Bit(lsn_value[1])
    => /\ BigLess(lsn_value[1], LastCall.value[1])
       /\ LastCall.value[1] = FirstByteAfterSegment(lsn_value[1], LastCall.args[1])

----------------------------------------------------------------------------
(* C32: when the decoder parses a record prefix whose total_len is less    *)
(* than 24 (including 0), it emits no record for it and stops decoding the *)
(* rest of the segment (MalformedRecord): no record located after the      *)
(* malformed prefix in that segment is emitted.                            *)

\* the i-th record written to page k declares less than the 24 bytes of its
\* own header, and the decoder comes to it
MalformedPrefix(seg, k, i) ==
    /\ seg.pages[k].lens[i] < SIZEOF_XLOG_RECORD
    /\ ComesTo(seg, k, i)

\* reading from the start of the file yields neither the record of such a
\* prefix nor any record that starts after it
C32_MalformedPrefixStopsSegment ==
    start_lsn_arg = None
    => \A k \in DOMAIN segment.pages :
           \A i \in DOMAIN segment.pages[k].lens :
               MalformedPrefix(segment, k, i)
               => \A n \in DOMAIN emitted :
                      emitted[n].start < RecordStart(segment, k, i)

----------------------------------------------------------------------------
(* C33: parsing one block reference consumes, in this order: the 4-byte    *)
(* header {id, fork_flags, data_len}; if fork_flags & 0x10, a 5-byte image *)
(* header {len, hole_off, bimg_info}, then a 2-byte hole_len iff bimg_info *)
(* has both the has-hole bit (0x01) and a compression bit (0x1C), then len *)
(* image bytes; a 12-byte relation node iff fork_flags & 0x80 is clear;    *)
(* the 4-byte block number; and data_len inline bytes iff fork_flags &     *)
(* 0x20.  Exactly one block reference is then appended to the record.      *)

\* the n bytes that lie "from" bytes after where the call just made began
Piece(from, n) == BytesFrom(LastCall.position + from, n)

\* the little-endian number of two bytes
Word(bytes) == bytes[1] + 256 * bytes[2]

\* the layout of the block reference written where the call just made
\* began: the sizes of its parts, each one following the one before
BlockLayout ==
    LET fork_flags == Piece(1, 1)[1]
        has_image == BitAnd(fork_flags, 16) # 0
        bimg_info == Piece(8, 1)[1]
        has_hole_len == /\ has_image
                        /\ BitAnd(bimg_info, 1) # 0
                        /\ BitAnd(bimg_info, 28) # 0
    IN  [header |-> 4,
         image_header |-> IF has_image THEN 5 ELSE 0,
         hole_len |-> IF has_hole_len THEN 2 ELSE 0,
         image |-> IF has_image THEN Word(Piece(4, 2)) ELSE 0,
         node |-> IF BitAnd(fork_flags, 128) = 0 THEN 12 ELSE 0,
         block_num |-> 4,
         inline |-> IF BitAnd(fork_flags, 32) # 0 THEN Word(Piece(2, 2)) ELSE 0]

\* where the parts of the layout begin
ImageAt == BlockLayout.header + BlockLayout.image_header + BlockLayout.hole_len
NodeAt == ImageAt + BlockLayout.image
BlockNumAt == NodeAt + BlockLayout.node
InlineAt == BlockNumAt + BlockLayout.block_num

\* a block reference that was parsed took the bytes of its layout, each
\* part from its place, and is the one block of the record
C33_BlockReferenceLayout ==
    Succeeded("_parse_block_reference")
    => LET blocks == LastCall.value[1].blocks
           block == blocks[1]
           flag(bit) == BitAnd(Piece(1, 1)[1], bit) # 0
       IN  /\ Advance = InlineAt + BlockLayout.inline
           /\ Len(blocks) = 1
           /\ block.id = Piece(0, 1)[1]
           /\ block.fork_flags = Piece(1, 1)[1]
           /\ block.data_length = Word(Piece(2, 2))
           /\ (block.image # None) = flag(16)
           /\ flag(16)
              => /\ block.image[1].length = Word(Piece(4, 2))
                 /\ block.image[1].hole_offset = Word(Piece(6, 2))
                 /\ block.image[1].bimg_info = Piece(8, 1)[1]
                 /\ (block.image[1].hole_length # None)
                    = (BlockLayout.hole_len = 2)
                 /\ BlockLayout.hole_len = 2
                    => block.image[1].hole_length
                       = Some(unpack_unsigned(Piece(9, 2)))
                 /\ block.image[1].data = Piece(ImageAt, BlockLayout.image)
           /\ (block.relfilenode # None) = ~flag(128)
           /\ ~flag(128)
              => block.relfilenode[1]
                 = [spcNode |-> unpack_unsigned(Piece(NodeAt, 4)),
                    dbNode |-> unpack_unsigned(Piece(NodeAt + 4, 4)),
                    relNode |-> unpack_unsigned(Piece(NodeAt + 8, 4))]
           /\ block.block_num = unpack_unsigned(Piece(BlockNumAt, 4))
           /\ block.data = IF flag(32)
                           THEN Some(Piece(InlineAt, BlockLayout.inline))
                           ELSE None

\* a block reference with an image that has a hole and is compressed, a
\* relation node and inline data was parsed from its first byte on
C33_Witness ==
    /\ Succeeded("_parse_block_reference")
    /\ LastCall.position = 0
    /\ data = BlockBytes(48, 5)
    /\ reader_position = Len(data)

----------------------------------------------------------------------------
(* C34: the segment decoder strides pages by the block_size declared in    *)
(* the segment's long header: page k is read at offset k * block_size for  *)
(* every k, also when the declared block_size differs from 8192.           *)

\* the pages whose header was read are, in order, the pages that follow
\* the header page, each at its multiple of the declared block size, and
\* when parsing is over each of them has been read
C34_PagesAtDeclaredStride ==
    /\ pc \in {"pages", "records", "done"}
       => \A k \in DOMAIN pages_read :
              pages_read[k] = k * segment.block_size
    /\ pc = "done" => Len(pages_read) = Len(segment.pages)

----------------------------------------------------------------------------
(* C35: in every state reachable from a fresh tracker by process_record    *)
(* calls only (add_subtransaction never called), total_transactions =      *)
(* |active| + committed_count + aborted_count.                             *)

C35_TotalIsActivePlusFinished ==
    total_transactions
    = Cardinality(DOMAIN transactions) + committed_count + aborted_count

\* records were fed, and they left a transaction active, committed another
\* and created one more than once
C35_Witness ==
    /\ call.op = "process_record"
    /\ transactions # EmptyDict
    /\ committed_count > 0
    /\ total_transactions > Cardinality(TrackedXids(TM))

----------------------------------------------------------------------------
(* C36: in every state reachable by process_record calls alone,            *)
(* aborted_transactions is empty, aborted_count is 0, and no tracked       *)
(* transaction has state prepared or aborted: the opcode that is           *)
(* dispatched on is xl_info & 0x0F, which never equals 0x10..0x60.         *)

\* every info the tracker holds, in any of its three maps
TrackedInfos ==
    {transactions[xid] : xid \in DOMAIN transactions}
    \cup {committed_transactions[xid] : xid \in DOMAIN committed_transactions}
    \cup {aborted_transactions[xid] : xid \in DOMAIN aborted_transactions}

----------------------------------------------------------------------------
(* C37: in every reachable tracker state, each info stored in              *)
(* committed_transactions has state COMMITTED and a non-null commit_lsn,   *)
(* each info stored in aborted_transactions has state ABORTED, each info   *)
(* stored in active has state IN_PROGRESS or PREPARED, and every info is   *)
(* stored under the key equal to its own xid.                              *)

C37_InfosMatchTheirMap ==
    /\ \A xid \in DOMAIN committed_transactions :
           /\ committed_transactions[xid].state = COMMITTED
           /\ committed_transactions[xid].commit_lsn # None
           /\ committed_transactions[xid].xid = xid
    /\ \A xid \in DOMAIN aborted_transactions :
           /\ aborted_transactions[xid].state = ABORTED
           /\ aborted_transactions[xid].xid = xid
    /\ \A xid \in DOMAIN transactions :
           /\ transactions[xid].state \in {IN_PROGRESS, PREPARED}
           /\ transactions[xid].xid = xid

\* a parent and its subtransaction are committed and another transaction
\* is active
C37_Witness ==
    /\ \E parent_xid \in DOMAIN committed_transactions :
           \E subxid \in committed_transactions[parent_xid].subtransactions :
               subxid \in DOMAIN committed_transactions
    /\ transactions # EmptyDict

----------------------------------------------------------------------------
(* C38: after any sequence of BinaryReader operations (read_*, skip_bytes, *)
(* peek_bytes, seek, read_string, read_null_terminated_string) with any    *)
(* integer arguments, including negative counts, the cursor satisfies      *)
(* 0 <= position <= length.                                                *)

C38_CursorWithinData ==
    /\ 0 <= reader_position
    /\ reader_position <= Len(data)

----------------------------------------------------------------------------
(* C39: if the size of the segment file is a multiple of 8192 and no parsed *)
(* record prefix has total_len = 0, read_records() without range arguments *)
(* terminates: each page read advances current_position by exactly 8192,   *)
(* current_position never decreases, and the iteration ends with           *)
(* current_position = file_size.                                           *)

\* the file is made of whole pages
WholePages == file_size(segment) % WAL_BLOCK_SIZE = 0

\* read_records() has been called with neither start_lsn nor end_lsn
WithoutRange ==
    /\ pc # "idle"
    /\ start_lsn_arg = None
    /\ end_lsn_arg = None

\* a prefix of total length 0 has been parsed in the page being read
ZeroLengthParsed ==
    \E n \in DOMAIN reader_records : reader_records[n].xl_tot_len = 0

\* the iteration is over, at the end of the file
EndedAtFileSize ==
    /\ pc = "done"
    /\ current_position = file_size(segment)

\* XLogReader.__init__ on a segment file of whole pages, within "with"
WholeReaderInit ==
    /\ ReaderInit
    /\ segment.tail = 0

\* read_records() and the steps of its generator
WholeReaderNext ==
    \/ ReadRecords(None, None)
    \/ While
    \/ ReadPage
    \/ ParseRecord
    \/ Yield

\* the consumer iterates read_records() over such a file to exhaustion
WholeReaderSpec ==
    WholeReaderInit /\ [][WholeReaderNext]_vars /\ WF_vars(WholeReaderNext)

\* reading such a file without range comes to its end at file_size unless a
\* prefix of total length 0 is parsed; the step that reads a page adds 8192
\* to current_position, and no step lowers it
C39_WholePagesReadToTheEnd ==
    /\ [](WholePages /\ WithoutRange
          => <>(ZeroLengthParsed \/ EndedAtFileSize))
    /\ [][WholePages /\ WithoutRange /\ pc = "page"
          => current_position' = current_position + WAL_BLOCK_SIZE]_vars
    /\ [][WholePages /\ WithoutRange
          => current_position' >= current_position]_vars

\* a file of several pages, with records, pages of another magic and a
\* record that runs over the page end, has been read to its end
C39_Witness ==
    /\ WholePages
    /\ WithoutRange
    /\ Len(segment.pages) > 1
    /\ \E k \in DOMAIN segment.pages : ~magic_matches(segment.pages[k])
    /\ \E k \in DOMAIN segment.pages : segment.pages[k] = OverrunPage
    /\ emitted # <<>>
    /\ EndedAtFileSize

----------------------------------------------------------------------------
(* C40: every record emitted by XLogReader lies within a single page: its  *)
(* start offset within the page plus its xl_tot_len is at most 8192, so a  *)
(* record whose declared extent crosses the page end is never emitted and  *)
(* ends the parsing of that page.                                          *)

\* the record's declared extent ends within the page it starts in
WithinItsPage(record) ==
    (record.start % WAL_BLOCK_SIZE) + record.xl_tot_len <= WAL_BLOCK_SIZE

\* the header the loop of _read_page_records stands at declares an extent
\* that crosses the page end
AtCrossingRecord ==
    /\ pc = "parse"
    /\ reader_position < WAL_BLOCK_SIZE
    /\ WAL_BLOCK_SIZE - reader_position >= SIZEOF_XLOG_RECORD
    /\ reader_position
         + HeaderAt(segment, page_data, reader_position).xl_tot_len
       > WAL_BLOCK_SIZE

\* the records parsed, returned and yielded lie within their pages, and the
\* round of the loop that meets a crossing record leaves the loop with the
\* records parsed before it
C40_EmittedWithinOnePage ==
    /\ [](/\ \A n \in DOMAIN emitted : WithinItsPage(emitted[n])
          /\ \A n \in DOMAIN page_records : WithinItsPage(page_records[n])
          /\ \A n \in DOMAIN reader_records : WithinItsPage(reader_records[n]))
    /\ [][AtCrossingRecord
          => /\ pc' = "for"
             /\ page_records' = reader_records
             /\ emitted' = emitted]_vars

\* a page whose second record runs over the page end and a page whose last
\* record ends exactly at the page end have been read: the first record of
\* the one and the last record of the other have been yielded
C40_Witness ==
    /\ pc = "done"
    /\ start_lsn_arg = None
    /\ end_lsn_arg = None
    /\ Len(segment.pages) = 2
    /\ segment.pages[1] = OverrunPage
    /\ segment.pages[2] = FullPage
    /\ Len(emitted) = 5
    /\ emitted[1].xl_tot_len = 8000
    /\ (emitted[5].start % WAL_BLOCK_SIZE) + emitted[5].xl_tot_len
       = WAL_BLOCK_SIZE

====
